---- MODULE Spec2Model ----
(***************************************************************************)
(* Model of the cron scheduler of lavgents:                                *)
(*   src/src/mastra/scheduler/cron-store.ts                                *)
(*     CronStore      (lines 4-65)    the persisted cron_jobs table        *)
(*     CronScheduler  (lines 99-204)  start / handleTick / isDue /         *)
(*                                    executeJob                           *)
(*                                                                         *)
(* Time is a discrete wall clock.  A cron schedule is modelled by the set  *)
(* of instants at which it occurs (croner's Cron class is an external      *)
(* library; only Cron.nextRun is used by the scheduler).                   *)
(*                                                                         *)
(* Every `await` of the source is a point at which other callbacks of the  *)
(* event loop may run, so each asynchronous method is split into one       *)
(* action per synchronous stretch between two awaits.                      *)
(*                                                                         *)
(* The columns created_at and updated_at of cron_jobs are written by the   *)
(* SQL statements but read by no code path; they are left out.             *)
(*                                                                         *)
(* Spec and SpecForeign take a tick as one step; SpecLifecycle has the     *)
(* worker thread, the messages between the two threads, and stop().        *)
(* LiveSpec adds the scheduling assumptions for the liveness properties.   *)
(*                                                                         *)
(* The second half models the note router and the webhook routes:          *)
(*   src/unnamed/part_003                 parseVaultIndex                  *)
(*   src/src/mastra/workflows/note-router-workflow.ts                      *)
(*   src/src/mastra/workflows/process-notes-workflow.ts                    *)
(*   src/src/mastra/webhooks/handlers.ts                                   *)
(* SpecVault applies parseVaultIndex to documents, SpecResolve the         *)
(* resolution of a target folder; SpecRouter has the scans, the runs of    *)
(* the router, the Telegram callbacks and the edits of the taxonomy;       *)
(* SpecWebhook has the three webhook routes answering requests.  The       *)
(* workflow engine is an external library: a run is the snapshot it keeps. *)
(***************************************************************************)
EXTENDS Integers, Sequences, FiniteSets, Bags, TLC

VARIABLES
    pc,        \* position of CronScheduler.start: "new", "upsert", "catchup",
               \* "ticking" (worker created), "failed" (start rejected)
    idx,       \* start(): index of the next registered job to upsert
    jobs,      \* CronScheduler.jobs: registered definitions, in registration order
    store,     \* rows of the cron_jobs table
    running,   \* CronScheduler.running: Set<string> of job ids
    execs,     \* in-flight async bodies of executeJob (lines 179-194): phase "run"
               \* (workflow run pending), "write" (updateLastRun pending),
               \* "done" (updateLastRun settled, running.delete pending);
               \* failed: the workflow run threw; wrote: the UPDATE succeeded;
               \* prev: the last_run_at the row held when updateLastRun settled;
               \* atStop (history): it was in flight when stop() was called;
               \* schedule (history): the schedule of its row at the launch;
               \* phase "lost" (history): the process ended while it was in
               \* flight, and left it where it was
    passes,    \* handleTick calls suspended at `await getEnabledJobs()` (line 146)
    clock,     \* wall clock, read by `new Date()` (line 147)
    lastPass,  \* history: what the handleTick loop that has just run decided
    worker,    \* CronScheduler.worker: "null" or "set"
    thread,    \* the worker thread: "none", "running" (timer set), "exited"
    inbox,     \* messages the worker has posted, not yet delivered to the
               \* scheduler's 'message' listener
    stopMsg,   \* a 'stop' message is on its way to the worker
    stopped,   \* history: stop() has been called
    vaultIndex,\* the text of NOTES_ROOT/vault-index.md, line by line
    parsed,    \* the results of the calls made so far of a function taken on
               \* its own (parseVaultIndex, the resolution of a target folder)
    notes,     \* the note files: directory, frontmatter status, chatId, routedTo
    runs,      \* the runs of noteRouterWorkflow as the workflow engine keeps them
    tasks,     \* asynchronous executions in flight, each at its next await
    sent,      \* the messages sent to Telegram chats
    presses,   \* count of the callback queries received
    scans,     \* count of the passes of scan-and-process started
    edits,     \* count of the edits made to vault-index.md
    responses, \* the requests the webhook routes have answered, each with
               \* the status returned and what the route did for it
    fetching,  \* one call of fetchWithRetry of the Telegram integration
    classifying, \* one execution of the step classify-emails
    labelling  \* one execution of the step apply-gmail-labels

\* the tick source and its wiring
lifecycle == <<worker, thread, inbox, stopMsg, stopped>>

\* the note router, its taxonomy document and the webhooks
router == <<vaultIndex, parsed, notes, runs, tasks, sent, presses, scans, edits>>

\* the steps of the Gmail workflow and the outbound HTTP of the Telegram
\* integration
integrations == <<fetching, classifying, labelling>>

\* the scheduler
scheduler == <<pc, idx, jobs, store, running, execs, passes, clock, lastPass,
               worker, thread, inbox, stopMsg, stopped>>

vars == <<pc, idx, jobs, store, running, execs, passes, clock, lastPass,
          worker, thread, inbox, stopMsg, stopped, router, responses,
          integrations>>

----------------------------------------------------------------------------
(* Bounds of the model *)

StartTime == 3
MaxTime == 5
MaxJobs == 2
MaxPreRows == 1
MaxPasses == 2
MaxInbox == 2

----------------------------------------------------------------------------
(* Values *)

\* last_run_at TEXT (nullable): the SQL NULL of a row that never ran
Null == -1

JobIds == {"a", "b"}

\* the process starts at StartTime; stamps of earlier lifetimes are older
Times == StartTime..MaxTime

\* cron expressions: "every2" and "every3" recur with that period, "never"
\* is a valid expression without any occurrence (such as 0 0 30 2 *)
Schedules == {"every2", "every3", "never"}

Period(s) == CASE s = "every2" -> 2 [] s = "every3" -> 3 [] OTHER -> 0

\* the cron expression s has an occurrence at instant t
Occurs(s, t) == Period(s) > 0 /\ t % Period(s) = 0

\* Cron(schedule).nextRun(prev): first occurrence strictly after prev, or
\* null when the expression has none
nextRun(s, prev) ==
    IF Period(s) = 0 THEN Null
    ELSE ((prev \div Period(s)) + 1) * Period(s)

\* inputData of a definition: undefined, {} or an object with one key
InputDatas == {"undefined", "{}", "{k:1}"}

\* JSON.stringify(job.inputData ?? {})  (line 42)
JsonStringify(d) == IF d = "undefined" THEN "{}" ELSE d

\* JSON.parse(row.input_data) returns normally (line 175)
JsonParses(text) == text \in {"{}", "{k:1}"}

\* (job.enabled ?? true) ? 1 : 0  (line 43); enabled is TRUE, FALSE or "undefined"
EnabledColumn(e) == IF e = "undefined" \/ e = "true" THEN 1 ELSE 0

\* the workflows registered with the Mastra instance; getWorkflow throws for
\* any other id
KnownWorkflows == {"processNotesWorkflow"}

\* CronJobDefinition values the application may register (lines 216-222)
JobDefs ==
    { [id |-> "a", schedule |-> "every2", workflowId |-> "processNotesWorkflow",
       inputData |-> "{}", enabled |-> "undefined"],
      [id |-> "a", schedule |-> "never", workflowId |-> "missingWorkflow",
       inputData |-> "{k:1}", enabled |-> "true"],
      [id |-> "b", schedule |-> "every3", workflowId |-> "missingWorkflow",
       inputData |-> "{k:1}", enabled |-> "false"] }

\* the registry cronJobs: process-notes, every five minutes, no input, enabled
\* left out
cronJobs ==
    <<[id |-> "a", schedule |-> "every2", workflowId |-> "processNotesWorkflow",
       inputData |-> "{}", enabled |-> "undefined"]>>

\* rows an earlier process lifetime of this program has left in the table:
\* written by upsertJob (valid JSON text) and possibly stamped by updateLastRun
PreRows ==
    [job_id : JobIds, schedule : {"every2"},
     workflow_id : {"processNotesWorkflow"}, input_data : {"{}"},
     last_run_at : {Null, 0}, enabled : {0, 1}]

\* rows whose input_data was not written by upsertJob (edited outside the
\* program): the TEXT column then holds something JSON.parse rejects
ForeignRows ==
    [job_id : JobIds, schedule : {"every2"},
     workflow_id : {"processNotesWorkflow"}, input_data : {"not json"},
     last_run_at : {Null, 2}, enabled : {1}]

\* job_id is the PRIMARY KEY of cron_jobs (line 14)
KeyUnique(rows) == \A r1, r2 \in rows : r1.job_id = r2.job_id => r1 = r2

Tables(rows) == {t \in SUBSET rows : Cardinality(t) <= MaxPreRows /\ KeyUnique(t)}

----------------------------------------------------------------------------
(* CronStore *)

HasRow(t, id) == \E r \in t : r.job_id = id

RowOf(t, id) == CHOOSE r \in t : r.job_id = id

\* an upsert written as INSERT OR REPLACE: the old row is deleted, so the new
\* one starts with the default NULL in last_run_at
upsertJobReplace(t, job) ==
    {r \in t : r.job_id # job.id}
        \cup {[job_id |-> job.id, schedule |-> job.schedule,
                workflow_id |-> job.workflowId,
                input_data |-> JsonStringify(job.inputData),
                last_run_at |-> Null,
                enabled |-> EnabledColumn(job.enabled)]}

\* CronStore.upsertJob: INSERT ... ON CONFLICT(job_id) DO UPDATE SET schedule,
\* workflow_id, input_data, enabled (and updated_at); last_run_at is not in
\* the column list, so a new row gets its default NULL and an existing row
\* keeps its value
upsertJob(t, job) ==
    LET fresh == [job_id |-> job.id, schedule |-> job.schedule,
                  workflow_id |-> job.workflowId,
                  input_data |-> JsonStringify(job.inputData),
                  last_run_at |-> Null,
                  enabled |-> EnabledColumn(job.enabled)]
    IN  IF HasRow(t, job.id)
        THEN {IF r.job_id = job.id
                THEN [fresh EXCEPT !.last_run_at = r.last_run_at]
                ELSE r : r \in t}
        ELSE t \cup {fresh}

\* a SELECT without its WHERE clause
getAllJobs(t) == t

\* a SELECT that joins the table with the definitions registered in this
\* process: rows of other jobs are not returned
getRegisteredJobs(t) ==
    {r \in t : r.enabled = 1 /\ \E k \in 1..Len(jobs) : jobs[k].id = r.job_id}

\* CronStore.getEnabledJobs: SELECT * FROM cron_jobs WHERE enabled = 1
getEnabledJobs(t) == {r \in t : r.enabled = 1}

\* CronStore.updateLastRun: UPDATE cron_jobs SET last_run_at = ? WHERE job_id = ?
\* (timestamp.toISOString() and new Date(text) round-trip a Date exactly)
updateLastRun(t, id, ts) ==
    {IF r.job_id = id THEN [r EXCEPT !.last_run_at = ts] ELSE r : r \in t}

\* the orders in which a result set may be returned (no ORDER BY)
RECURSIVE Orders(_)
Orders(rows) ==
    IF rows = {} THEN {<<>>}
    ELSE UNION {{<<r>> \o o : o \in Orders(rows \ {r})} : r \in rows}

----------------------------------------------------------------------------
(* CronScheduler *)

\* an isDue that compares with < instead of <=
isDueStrict(row, now) ==
    IF row.last_run_at = Null THEN TRUE
    ELSE LET nextAfterLastRun == nextRun(row.schedule, row.last_run_at)
         IN  IF nextAfterLastRun = Null THEN FALSE
             ELSE nextAfterLastRun < now

\* an isDue that only honours the window that has just opened: due when the
\* next occurrence after last_run_at has passed and the one after it has not
isDueCurrentWindowOnly(row, now) ==
    IF row.last_run_at = Null THEN TRUE
    ELSE LET nextAfterLastRun == nextRun(row.schedule, row.last_run_at)
         IN  IF nextAfterLastRun = Null THEN FALSE
             ELSE /\ nextAfterLastRun <= now
                  /\ nextRun(row.schedule, nextAfterLastRun) > now

\* an isDue without its first line: a never-run row is measured from instant 0
isDueNoNullCase(row, now) ==
    LET nextAfterLastRun ==
            nextRun(row.schedule, IF row.last_run_at = Null THEN 0 ELSE row.last_run_at)
    IN  IF nextAfterLastRun = Null THEN FALSE
        ELSE nextAfterLastRun <= now

\* an isDue that counts on a tick at every occurrence: due only when now is
\* itself an occurrence of the schedule
isDueAtOccurrenceOnly(row, now) ==
    IF row.last_run_at = Null THEN TRUE
    ELSE Occurs(row.schedule, now)

\* CronScheduler.isDue
isDue(row, now) ==
    IF row.last_run_at = Null THEN TRUE
    ELSE LET nextAfterLastRun == nextRun(row.schedule, row.last_run_at)
         IN  IF nextAfterLastRun = Null THEN FALSE
             ELSE nextAfterLastRun <= now

\* a handleTick with one busy flag for the whole scheduler instead of a set
\* of ids: while anything runs, nothing is launched
SkipsWhileAnyRunning(run, row) == run # {}

\* a handleTick without its line 150
SkipsNothing(run, row) == FALSE

\* handleTick line 150: if (this.running.has(row.job_id)) continue
Skips(run, row) == row.job_id \in run

\* a finally block that stamps the time of completion
StampOfCompletion(e, completionTime) == completionTime

\* the timestamp handed to updateLastRun in the finally block (line 189):
\* the `now` captured by the closure, not the time of completion
StampOf(e, completionTime) == e.now

NoPass == [now |-> Null, rows |-> {}, before |-> {}, evals |-> {}, threw |-> FALSE]

\* an executeJob whose async body has no try/catch: a throwing getWorkflow
\* leaves executeJob as an exception
executeJobUncaught(st, row, now) ==
    LET marked == st.running \cup {row.job_id}
        e == [job_id |-> row.job_id, now |-> now, schedule |-> row.schedule, phase |-> "run",
              failed |-> FALSE, wrote |-> FALSE, prev |-> Null, atStop |-> FALSE,
              dup |-> Cardinality({x \in st.execs : x.job_id = row.job_id})]
    IN  IF JsonParses(row.input_data) /\ row.workflow_id \in KnownWorkflows
        THEN [st EXCEPT !.running = marked, !.execs = st.execs \cup {e}]
        ELSE [st EXCEPT !.running = marked, !.threw = TRUE]

\* CronScheduler.executeJob(row, now), synchronous part: running.add, then
\* JSON.parse (which may throw out of executeJob), then the async body runs to
\* its first await: with a known workflow that is `await workflow.createRun()`
\* (phase "run"); when getWorkflow throws, the catch and the finally block run
\* at once and the body stops at `await updateLastRun` (phase "write").
\* st is the loop state [running, execs, evals, threw].
executeJob(st, row, now) ==
    LET marked == st.running \cup {row.job_id}
        known == row.workflow_id \in KnownWorkflows
        e == [job_id |-> row.job_id, now |-> now, schedule |-> row.schedule,
              phase |-> IF known THEN "run" ELSE "write",
              failed |-> ~known, wrote |-> FALSE, prev |-> Null, atStop |-> FALSE,
              dup |-> Cardinality({x \in st.execs : x.job_id = row.job_id})]
    IN  IF JsonParses(row.input_data)
        THEN [st EXCEPT !.running = marked, !.execs = st.execs \cup {e}]
        ELSE [st EXCEPT !.running = marked, !.threw = TRUE]

\* what the loop notes about one row (history only)
EvalOf(row, live, skipped, due, called) ==
    [job_id |-> row.job_id, schedule |-> row.schedule,
     last_run_at |-> row.last_run_at,
     stored |-> IF HasRow(live, row.job_id)
                THEN RowOf(live, row.job_id).last_run_at ELSE Null,
     skipped |-> skipped, due |-> due, called |-> called]

\* handleTick lines 149-154: the for loop over the rows read before the await,
\* run to its end or to the first exception
RECURSIVE forRows(_, _, _, _)
forRows(rows, now, live, st) ==
    IF rows = <<>> \/ st.threw THEN st
    ELSE LET row == Head(rows) IN
         IF Skips(st.running, row)
         THEN forRows(Tail(rows), now, live,
                [st EXCEPT !.evals = @ \cup {EvalOf(row, live, TRUE, FALSE, FALSE)}])
         ELSE IF isDue(row, now)
         THEN forRows(Tail(rows), now, live,
                executeJob([st EXCEPT !.evals = @ \cup {EvalOf(row, live, FALSE, TRUE, TRUE)}],
                           row, now))
         ELSE forRows(Tail(rows), now, live,
                [st EXCEPT !.evals = @ \cup {EvalOf(row, live, FALSE, FALSE, FALSE)}])

----------------------------------------------------------------------------
(* Actions *)

\* CronScheduler.register(job), called before start (lines 111-113)
Register(job) ==
    /\ pc = "new"
    /\ Len(jobs) < MaxJobs
    /\ jobs' = Append(jobs, job)
    /\ UNCHANGED <<pc, idx, store, running, execs, passes, clock>>
    /\ lastPass' = NoPass
    /\ UNCHANGED lifecycle
    /\ UNCHANGED <<router, responses, integrations>>

\* start(): this.mastra = mastra; await this.store.init()  (lines 117-119);
\* when init rejects (ok = FALSE) start() rejects
StartInit(ok) ==
    /\ pc = "new"
    /\ pc' = IF ok THEN "upsert" ELSE "failed"
    /\ idx' = IF ok THEN 1 ELSE idx
    /\ UNCHANGED <<jobs, store, running, execs, passes, clock>>
    /\ lastPass' = NoPass
    /\ UNCHANGED lifecycle
    /\ UNCHANGED <<router, responses, integrations>>

\* a start() that logs a rejected upsertJob and goes on with the next job
StartUpsertIgnoringFailure(ok) ==
    /\ pc = "upsert"
    /\ idx <= Len(jobs)
    /\ store' = IF ok THEN upsertJob(store, jobs[idx]) ELSE store
    /\ idx' = idx + 1
    /\ UNCHANGED <<pc, jobs, running, execs, passes, clock>>
    /\ lastPass' = NoPass
    /\ UNCHANGED lifecycle
    /\ UNCHANGED <<router, responses, integrations>>

\* start(): one iteration of `for (const job of this.jobs) await upsertJob(job)`;
\* when upsertJob rejects (ok = FALSE) start() rejects
StartUpsert(ok) ==
    /\ pc = "upsert"
    /\ idx <= Len(jobs)
    /\ store' = IF ok THEN upsertJob(store, jobs[idx]) ELSE store
    /\ idx' = IF ok THEN idx + 1 ELSE idx
    /\ pc' = IF ok THEN pc ELSE "failed"
    /\ UNCHANGED <<jobs, running, execs, passes, clock>>
    /\ lastPass' = NoPass
    /\ UNCHANGED lifecycle
    /\ UNCHANGED <<router, responses, integrations>>

\* handleTick up to its await: the SELECT is issued and answered (line 146)
ReadRows == passes' = passes (+) SetToBag({getEnabledJobs(store)})

\* start(): `await this.handleTick()`, first half (line 126); when
\* getEnabledJobs rejects (ok = FALSE) handleTick and start() reject
StartCatchUpRead(ok) ==
    /\ pc = "upsert"
    /\ idx > Len(jobs)
    /\ IF ok THEN ReadRows /\ pc' = "catchup"
             ELSE passes' = passes /\ pc' = "failed"
    /\ UNCHANGED <<idx, jobs, store, running, execs, clock>>
    /\ lastPass' = NoPass
    /\ UNCHANGED lifecycle
    /\ UNCHANGED <<router, responses, integrations>>

\* a tick, in one step: the worker's timer fires, its 'tick' message is
\* delivered, this.handleTick() is called and reaches its await
\* (lines 87-89, 130-135, 146)
TickRead ==
    /\ pc = "ticking"
    /\ BagCardinality(passes) < MaxPasses
    /\ ReadRows
    /\ UNCHANGED <<pc, idx, jobs, store, running, execs, clock>>
    /\ lastPass' = NoPass
    /\ UNCHANGED lifecycle
    /\ UNCHANGED <<router, responses, integrations>>

\* handleTick after its await: now = new Date(), then the loop (lines 147-154).
\* The startup pass, once done, lets start() create the worker and attach the
\* 'message' listener (lines 129-136); the worker thread posts 'started' and
\* sets its interval timer (lines 85-89).  When the startup pass throws,
\* `await this.handleTick()` rejects and start() ends there.
\* rows is the result set the pass has read, order the order it came in.
HandleTickLoop(rows, order) ==
    /\ pc \in {"catchup", "ticking"}
    /\ BagIn(rows, passes)
    /\ order \in Orders(rows)
    /\ LET now == clock
           st == forRows(order, now, store,
                         [running |-> running, execs |-> execs,
                          evals |-> {}, threw |-> FALSE])
       IN  /\ running' = st.running
           /\ execs' = st.execs
           /\ lastPass' = [now |-> now, rows |-> rows, before |-> running,
                           evals |-> st.evals, threw |-> st.threw]
    /\ passes' = passes (-) SetToBag({rows})
    /\ pc' = IF pc = "catchup" /\ forRows(order, clock, store,
                                           [running |-> running, execs |-> execs,
                                            evals |-> {}, threw |-> FALSE]).threw
             THEN "failed" ELSE "ticking"
    /\ IF pc = "catchup" /\ pc' = "ticking"
       THEN /\ worker' = "set"
            /\ thread' = "running"
            /\ inbox' = <<"started">>
            /\ UNCHANGED <<stopMsg, stopped>>
       ELSE UNCHANGED lifecycle
    /\ UNCHANGED <<idx, jobs, store, clock>>
    /\ UNCHANGED <<router, responses, integrations>>

\* the workflow run of an execution ends: run.start resolves (line 184) or
\* getWorkflow / createRun / start throws and is caught (lines 185-186); either
\* way the finally block calls updateLastRun (line 189)
Finish(e, threw) ==
    /\ e \in execs
    /\ e.phase = "run"
    /\ execs' = (execs \ {e}) \cup {[e EXCEPT !.phase = "write", !.failed = threw]}
    /\ UNCHANGED <<pc, idx, jobs, store, running, passes, clock>>
    /\ lastPass' = NoPass
    /\ UNCHANGED lifecycle
    /\ UNCHANGED <<router, responses, integrations>>

\* a finally block without the .catch of line 189: a rejected updateLastRun
\* ends the async body before running.delete
WriteLastRunUncaught(e, ok) ==
    /\ e \in execs
    /\ e.phase = "write"
    /\ store' = IF ok THEN updateLastRun(store, e.job_id, StampOf(e, clock)) ELSE store
    /\ execs' = IF ok
                THEN (execs \ {e}) \cup {[e EXCEPT !.phase = "done", !.wrote = ok,
                           !.prev = RowOf(store, e.job_id).last_run_at]}
                ELSE execs \ {e}
    /\ UNCHANGED <<pc, idx, jobs, running, passes, clock>>
    /\ lastPass' = NoPass
    /\ UNCHANGED lifecycle
    /\ UNCHANGED <<router, responses, integrations>>

\* a finally block that does not await updateLastRun: the id is taken out of
\* the running set while the UPDATE is still on its way
WriteLastRunNotAwaited(e, ok) ==
    /\ e \in execs
    /\ e.phase = "write"
    /\ store' = IF ok THEN updateLastRun(store, e.job_id, StampOf(e, clock)) ELSE store
    /\ running' = running \ {e.job_id}
    /\ execs' = (execs \ {e}) \cup {[e EXCEPT !.phase = "done", !.wrote = ok,
                                              !.prev = RowOf(store, e.job_id).last_run_at]}
    /\ UNCHANGED <<pc, idx, jobs, passes, clock>>
    /\ lastPass' = NoPass
    /\ UNCHANGED lifecycle
    /\ UNCHANGED <<router, responses, integrations>>

\* the UPDATE of updateLastRun takes effect, or the call rejects (lines 189-191)
WriteLastRun(e, ok) ==
    /\ e \in execs
    /\ e.phase = "write"
    /\ store' = IF ok THEN updateLastRun(store, e.job_id, StampOf(e, clock)) ELSE store
    /\ execs' = (execs \ {e}) \cup {[e EXCEPT !.phase = "done", !.wrote = ok,
                                              !.prev = RowOf(store, e.job_id).last_run_at]}
    /\ UNCHANGED <<pc, idx, jobs, running, passes, clock>>
    /\ lastPass' = NoPass
    /\ UNCHANGED lifecycle
    /\ UNCHANGED <<router, responses, integrations>>

\* a finally block without its line 192
CompleteKeepsRunning(e) ==
    /\ e \in execs
    /\ e.phase = "done"
    /\ running' = running
    /\ execs' = execs \ {e}
    /\ UNCHANGED <<pc, idx, jobs, store, passes, clock>>
    /\ lastPass' = NoPass
    /\ UNCHANGED lifecycle
    /\ UNCHANGED <<router, responses, integrations>>

\* after the awaited updateLastRun: this.running.delete(row.job_id) (line 192)
Complete(e) ==
    /\ e \in execs
    /\ e.phase = "done"
    /\ running' = running \ {e.job_id}
    /\ execs' = execs \ {e}
    /\ UNCHANGED <<pc, idx, jobs, store, passes, clock>>
    /\ lastPass' = NoPass
    /\ UNCHANGED lifecycle
    /\ UNCHANGED <<router, responses, integrations>>

\* the worker's interval timer fires: one 'tick' is posted (lines 87-89)
WorkerTick ==
    /\ thread = "running"
    /\ Len(inbox) < MaxInbox
    /\ inbox' = Append(inbox, "tick")
    /\ UNCHANGED <<pc, idx, jobs, store, running, execs, passes, clock>>
    /\ UNCHANGED <<worker, thread, stopMsg, stopped>>
    /\ lastPass' = NoPass
    /\ UNCHANGED <<router, responses, integrations>>

\* the 'message' listener gets 'started': msg.type is not 'tick', nothing is
\* done (lines 130-131)
OnStarted ==
    /\ inbox # <<>>
    /\ Head(inbox) = "started"
    /\ inbox' = Tail(inbox)
    /\ UNCHANGED <<pc, idx, jobs, store, running, execs, passes, clock>>
    /\ UNCHANGED <<worker, thread, stopMsg, stopped>>
    /\ lastPass' = NoPass
    /\ UNCHANGED <<router, responses, integrations>>

\* a listener without the .catch of line 132: the rejection of handleTick is
\* unhandled and ends the process, worker thread included
OnTickUncaught(ok) ==
    /\ inbox # <<>>
    /\ Head(inbox) = "tick"
    /\ IF ok THEN /\ BagCardinality(passes) < MaxPasses /\ ReadRows
                  /\ inbox' = Tail(inbox)
                  /\ UNCHANGED thread
             ELSE /\ passes' = EmptyBag
                  /\ inbox' = <<>>
                  /\ thread' = "exited"
    /\ UNCHANGED <<pc, idx, jobs, store, running, execs, clock>>
    /\ UNCHANGED <<worker, stopMsg, stopped>>
    /\ lastPass' = NoPass
    /\ UNCHANGED <<router, responses, integrations>>

\* the 'message' listener gets 'tick': handleTick is called and reaches its
\* await; when getEnabledJobs rejects (ok = FALSE) the rejection is caught and
\* logged (lines 130-135, 146).  The listener stays attached after stop().
OnTick(ok) ==
    /\ inbox # <<>>
    /\ Head(inbox) = "tick"
    /\ inbox' = Tail(inbox)
    /\ IF ok THEN BagCardinality(passes) < MaxPasses /\ ReadRows
             ELSE passes' = passes
    /\ UNCHANGED <<pc, idx, jobs, store, running, execs, clock>>
    /\ UNCHANGED <<worker, thread, stopMsg, stopped>>
    /\ lastPass' = NoPass
    /\ UNCHANGED <<router, responses, integrations>>

\* a stop() that also abandons the executions in flight
StopCancelling ==
    /\ ~stopped
    /\ stopped' = TRUE
    /\ IF worker = "set"
       THEN stopMsg' = TRUE /\ worker' = "null"
       ELSE UNCHANGED <<stopMsg, worker>>
    /\ execs' = {}
    /\ running' = {}
    /\ UNCHANGED <<pc, idx, jobs, store, passes, clock>>
    /\ UNCHANGED <<thread, inbox>>
    /\ lastPass' = NoPass
    /\ UNCHANGED <<router, responses, integrations>>

\* CronScheduler.stop() (lines 198-203): with a worker, post 'stop' and forget
\* the worker; without one, nothing.  The executions in flight are not
\* touched (only marked, for the record).
Stop ==
    /\ ~stopped
    /\ stopped' = TRUE
    /\ IF worker = "set"
       THEN stopMsg' = TRUE /\ worker' = "null"
       ELSE UNCHANGED <<stopMsg, worker>>
    /\ execs' = {[e EXCEPT !.atStop = TRUE] : e \in execs}
    /\ UNCHANGED <<pc, idx, jobs, store, running, passes, clock>>
    /\ UNCHANGED <<thread, inbox>>
    /\ lastPass' = NoPass
    /\ UNCHANGED <<router, responses, integrations>>

\* the worker gets 'stop': clearInterval, process.exit(0) (lines 91-96); the
\* messages it has posted and that are not yet delivered may be delivered
\* or lost with the thread (dropped)
WorkerStop(dropped) ==
    /\ stopMsg
    /\ thread = "running"
    /\ stopMsg' = FALSE
    /\ thread' = "exited"
    /\ inbox' = IF dropped THEN <<>> ELSE inbox
    /\ UNCHANGED <<pc, idx, jobs, store, running, execs, passes, clock>>
    /\ UNCHANGED <<worker, stopped>>
    /\ lastPass' = NoPass
    /\ UNCHANGED <<router, responses, integrations>>

\* time passes
Advance ==
    /\ clock < MaxTime
    /\ clock' = clock + 1
    /\ UNCHANGED <<pc, idx, jobs, store, running, execs, passes>>
    /\ lastPass' = NoPass
    /\ UNCHANGED lifecycle
    /\ UNCHANGED <<router, responses, integrations>>

----------------------------------------------------------------------------
(* Specifications *)

\* private worker: Worker | null = null (line 101); no thread, no messages
NoWorker ==
    /\ worker = "null"
    /\ thread = "none"
    /\ inbox = <<>>
    /\ stopMsg = FALSE
    /\ stopped = FALSE

\* no call of fetchWithRetry and no step of the Gmail workflow is under way
NoIntegrations ==
    /\ fetching = <<>>
    /\ classifying = <<>>
    /\ labelling = <<>>

\* the scheduler on its own: no taxonomy document, no note, no request
NoRouter ==
    /\ vaultIndex = <<>>
    /\ parsed = <<>>
    /\ notes = <<>>
    /\ runs = <<>>
    /\ tasks = {}
    /\ sent = {}
    /\ presses = 0
    /\ scans = 0
    /\ edits = 0
    /\ responses = <<>>

InitWith(rows) ==
    /\ pc = "new"
    /\ idx = 0
    /\ jobs = <<>>
    /\ store \in Tables(rows)
    /\ running = {}
    /\ execs = {}
    /\ passes = EmptyBag
    /\ clock = StartTime
    /\ lastPass = NoPass
    /\ NoWorker
    /\ NoRouter
    /\ NoIntegrations

\* a fresh or inherited table, every row of it written by this program
Init == InitWith(PreRows)

\* the scheduler with its tick source in one step (TickRead): a tick may
\* come at any moment once the worker exists, and stop() is not called
Next ==
    \/ \E job \in JobDefs : Register(job)
    \/ \E ok \in BOOLEAN : StartInit(ok)
    \/ \E ok \in BOOLEAN : StartUpsert(ok)
    \/ \E ok \in BOOLEAN : StartCatchUpRead(ok)
    \/ TickRead
    \/ \E rows \in BagToSet(passes) : \E order \in Orders(rows) : HandleTickLoop(rows, order)
    \/ \E e \in execs, threw \in BOOLEAN : Finish(e, threw)
    \/ \E e \in execs, ok \in BOOLEAN : WriteLastRun(e, ok)
    \/ \E e \in execs : Complete(e)
    \/ Advance

Spec == Init /\ [][Next]_vars

\* scheduling assumptions: start() runs on, tick messages keep arriving and
\* are handled, time passes, and no job hangs: the workflow run, the
\* updateLastRun call and the completion of every job id eventually happen
Fairness ==
    /\ WF_vars(\E ok \in BOOLEAN : StartInit(ok))
    /\ WF_vars(\E ok \in BOOLEAN : StartUpsert(ok))
    /\ WF_vars(\E ok \in BOOLEAN : StartCatchUpRead(ok))
    /\ WF_vars(TickRead)
    /\ WF_vars(\E rows \in BagToSet(passes) : \E order \in Orders(rows) :
                    HandleTickLoop(rows, order))
    /\ \A id \in JobIds :
          /\ WF_vars(\E e \in execs, threw \in BOOLEAN : e.job_id = id /\ Finish(e, threw))
          /\ WF_vars(\E e \in execs, ok \in BOOLEAN : e.job_id = id /\ WriteLastRun(e, ok))
          /\ WF_vars(\E e \in execs : e.job_id = id /\ Complete(e))
    /\ WF_vars(Advance)

\* the application as it is wired up: its registry holds the one job
\* process-notes, registered before start(); the table is fresh or holds that
\* job's row from an earlier lifetime
LiveInit ==
    /\ pc = "new"
    /\ idx = 0
    /\ jobs = cronJobs
    /\ store \in Tables({r \in PreRows : r.job_id = cronJobs[1].id})
    /\ running = {}
    /\ execs = {}
    /\ passes = EmptyBag
    /\ clock = StartTime
    /\ lastPass = NoPass
    /\ NoWorker
    /\ NoRouter
    /\ NoIntegrations

LiveSpec == LiveInit /\ [][Next]_vars /\ Fairness

\* the application with its tick source and stop() message by message: ticks
\* are posted by the worker thread and handled when delivered
NextLifecycle ==
    \/ \E job \in JobDefs : Register(job)
    \/ \E ok \in BOOLEAN : StartInit(ok)
    \/ \E ok \in BOOLEAN : StartUpsert(ok)
    \/ \E ok \in BOOLEAN : StartCatchUpRead(ok)
    \/ \E rows \in BagToSet(passes) : \E order \in Orders(rows) : HandleTickLoop(rows, order)
    \/ \E e \in execs, threw \in BOOLEAN : Finish(e, threw)
    \/ \E e \in execs, ok \in BOOLEAN : WriteLastRun(e, ok)
    \/ \E e \in execs : Complete(e)
    \/ Advance
    \/ WorkerTick
    \/ OnStarted
    \/ \E ok \in BOOLEAN : OnTick(ok)
    \/ Stop
    \/ \E dropped \in BOOLEAN : WorkerStop(dropped)

SpecLifecycle == LiveInit /\ [][NextLifecycle]_vars

\* the same program started on a table that also holds a row edited outside it
InitForeign == InitWith(PreRows \cup ForeignRows)

SpecForeign == InitForeign /\ [][Next]_vars

----------------------------------------------------------------------------
(* Properties *)

ExecsOf(id) == {e \in execs : e.job_id = id}

\* the occurrences of schedule s after instant from, up to and including to
OccurrencesIn(s, from, to) == {o \in (from + 1)..to : Occurs(s, o)}

PassRan == lastPass # NoPass

\* every row the pass has read was reached by its loop
AllEvaluated ==
    {ev.job_id : ev \in lastPass.evals} = {r.job_id : r \in lastPass.rows}

RowOfEval(ev) == [schedule |-> ev.schedule, last_run_at |-> ev.last_run_at]

\* the first occurrence of s strictly after instant t, Null when there is none
\* (searched instant by instant, two periods beyond the last instant)
FirstAfter(s, t) ==
    LET later == {o \in (t + 1)..(MaxTime + 6) : Occurs(s, o)}
    IN  IF later = {} THEN Null
        ELSE CHOOSE o \in later : \A o2 \in later : o <= o2

\* C1 (overlap protection): at every moment each job id has at most one
\* execution in flight, every execution in flight has its id in the running
\* set, and a pass that finds an id in the running set does not call
\* executeJob for it.
OverlapProtection ==
    /\ \A id \in JobIds : Cardinality(ExecsOf(id)) <= 1
    /\ \A e \in execs : e.job_id \in running
    /\ PassRan =>
          \A ev \in lastPass.evals :
              ev.job_id \in lastPass.before => ev.skipped /\ ~ev.called

\* a pass has just skipped a row it would have found due, because the id was
\* in the running set, while another pass is still suspended at its read
OverlapWitness ==
    /\ PassRan
    /\ BagCardinality(passes) >= 1
    /\ \E ev \in lastPass.evals :
          /\ ev.skipped
          /\ isDue(RowOfEval(ev), lastPass.now)
          /\ ExecsOf(ev.job_id) # {}

\* C2 (no relaunch before the next occurrence): when a pass calls executeJob
\* for a job whose stored last_run_at is T, the job's schedule has an
\* occurrence o with T < o <= now of that pass.
NoRelaunchBeforeNextOccurrence ==
    PassRan =>
        \A ev \in lastPass.evals :
            ev.called /\ ev.stored # Null =>
                OccurrencesIn(ev.schedule, ev.stored, lastPass.now) # {}

\* C3 (single catch-up): a pass that evaluates an idle job with k >= 1
\* occurrences between its last_run_at (the value the pass read, or the value
\* stored when the loop runs) and the now of the pass starts exactly one
\* execution of that job, carrying the now of the pass; and when an execution
\* has recorded its run, the stored last_run_at is the now it carries.
SingleCatchUp ==
    /\ PassRan =>
          \A ev \in lastPass.evals :
              /\ ev.last_run_at # Null
              /\ ev.job_id \notin lastPass.before
              /\ OccurrencesIn(ev.schedule, ev.last_run_at, lastPass.now) # {}
              => /\ ev.called
                 /\ Cardinality(ExecsOf(ev.job_id)) = 1
                 /\ \A e \in ExecsOf(ev.job_id) :
                        e.now = lastPass.now /\ e.phase \in {"run", "write"}
    /\ PassRan =>
          \A ev \in lastPass.evals :
              /\ ev.stored # Null
              /\ ev.job_id \notin lastPass.before
              /\ OccurrencesIn(ev.schedule, ev.stored, lastPass.now) # {}
              => ev.called /\ Cardinality(ExecsOf(ev.job_id)) = 1
    /\ \A e \in execs :
          e.phase = "done" /\ e.wrote =>
              /\ HasRow(store, e.job_id)
              /\ RowOf(store, e.job_id).last_run_at = e.now

\* a pass has just launched a job two of whose occurrences were missed, at an
\* instant that is not itself an occurrence
SingleCatchUpWitness ==
    /\ PassRan
    /\ \E ev \in lastPass.evals :
          /\ ev.called
          /\ ev.last_run_at # Null
          /\ Cardinality(OccurrencesIn(ev.schedule, ev.last_run_at, lastPass.now)) >= 2
          /\ ~Occurs(ev.schedule, lastPass.now)

\* C4 (catch-up invariant): a pass finds every row whose last_run_at is null
\* due, whatever its schedule and the time, and launches it unless its id is
\* in the running set; the loop reaches every row the pass has read.
CatchUpNeverRun ==
    PassRan =>
        /\ AllEvaluated
        /\ \A ev \in lastPass.evals :
              ev.last_run_at = Null /\ ev.job_id \notin lastPass.before =>
                  /\ ev.due
                  /\ ev.called
                  /\ \E e \in ExecsOf(ev.job_id) : e.now = lastPass.now

\* a never-run job whose schedule has no occurrence at all has been launched
CatchUpNeverRunWitness ==
    /\ PassRan
    /\ \E ev \in lastPass.evals :
          ev.last_run_at = Null /\ ev.schedule = "never" /\ ev.called

\* C5 (due-ness rule): for an evaluated row with a last_run_at, isDue is true
\* exactly when the first occurrence of its schedule strictly after
\* last_run_at exists and is <= now.
DuenessRule ==
    PassRan =>
        \A ev \in lastPass.evals :
            ~ev.skipped /\ ev.last_run_at # Null =>
                (ev.due <=> /\ FirstAfter(ev.schedule, ev.last_run_at) # Null
                            /\ FirstAfter(ev.schedule, ev.last_run_at) <= lastPass.now)

\* a row whose next occurrence is still ahead has been found not due
DuenessWitness ==
    /\ PassRan
    /\ \E ev \in lastPass.evals :
          /\ ~ev.skipped /\ ev.last_run_at # Null /\ ~ev.due
          /\ FirstAfter(ev.schedule, ev.last_run_at) > lastPass.now

\* C6 (run-anchoring): an execution carries the clock reading its pass took
\* before the loop, and the last_run_at it records is that reading, however
\* much later the record is written.
RunAnchoring ==
    /\ PassRan =>
          /\ lastPass.now = clock
          /\ \A ev \in lastPass.evals :
                ev.called => \A e \in ExecsOf(ev.job_id) : e.now = clock
    /\ \A e \in execs :
          /\ e.now <= clock
          /\ e.phase = "done" /\ e.wrote =>
                \E r \in store : r.job_id = e.job_id /\ r.last_run_at = e.now

\* an execution that took two instants has recorded its run
RunAnchoringWitness ==
    \E e \in execs :
        /\ e.phase = "done" /\ e.wrote
        /\ clock >= e.now + 2
        /\ RowOf(store, e.job_id).last_run_at = e.now

\* C7 (failure isolation): an execution whose workflow run threw goes on to
\* call updateLastRun, keeps its id in the running set until that call has
\* settled, and has then stored the now of its pass; the pass in which a
\* launch failed at once (getWorkflow threw) still reaches every row it read
\* and launches exactly the idle rows isDue finds due.
FailureIsolation ==
    /\ \A e \in execs :
          e.failed =>
              /\ e.phase \in {"write", "done"}
              /\ e.job_id \in running
              /\ e.phase = "done" /\ e.wrote =>
                    RowOf(store, e.job_id).last_run_at = e.now
    /\ running = {e.job_id : e \in execs}
    /\ PassRan =>
          /\ ~lastPass.threw
          /\ AllEvaluated
          /\ \A ev \in lastPass.evals :
                /\ ev.skipped <=> ev.job_id \in lastPass.before
                /\ ~ev.skipped => /\ ev.due <=> isDue(RowOfEval(ev), lastPass.now)
                                  /\ ev.called <=> ev.due
                /\ ev.called => \E e \in ExecsOf(ev.job_id) : e.now = lastPass.now

\* a pass has just launched two jobs, one of which failed at once
FailureIsolationWitness ==
    /\ PassRan
    /\ \E e1, e2 \in execs :
          /\ e1.job_id # e2.job_id
          /\ e1.now = lastPass.now /\ e2.now = lastPass.now
          /\ e1.failed /\ e1.phase = "write"
          /\ e2.phase = "run"
          /\ \A ev \in lastPass.evals : ev.called

Settled(id) ==
    /\ pc \in {"catchup", "ticking"}
    /\ HasRow(store, id)
    /\ RowOf(store, id).enabled = 1

\* the instants of the model at which some schedule occurs
OccurrenceTimes == {o \in Times : \E s \in Schedules : Occurs(s, o)}

\* C9 (no missed execution): under the scheduling assumptions of LiveSpec,
\* whenever an enabled job has an occurrence o of its schedule after its
\* stored last_run_at (or has never run), an execution of it launched by a
\* pass whose now is >= o is eventually in flight; and a never-run job is
\* eventually launched even when its schedule never occurs.
NoMissedExecution ==
    /\ \A id \in JobIds : \A o \in OccurrenceTimes :
          (/\ Settled(id)
           /\ Occurs(RowOf(store, id).schedule, o)
           /\ RowOf(store, id).last_run_at < o)
          ~> (\E e \in ExecsOf(id) : e.now >= o)
    /\ \A id \in JobIds :
          (Settled(id) /\ RowOf(store, id).last_run_at = Null)
          ~> (ExecsOf(id) # {})

\* a tick pass has just launched a job that already ran in this lifetime,
\* later than the occurrence that made it due: the ticks in between were
\* delayed or lost
NoMissedExecutionWitness ==
    /\ PassRan
    /\ \E ev \in lastPass.evals :
          /\ ev.called
          /\ ev.last_run_at >= StartTime
          /\ FirstAfter(ev.schedule, ev.last_run_at) # Null
          /\ FirstAfter(ev.schedule, ev.last_run_at) < lastPass.now

\* C10 (upsertJob leaves last_run_at alone): every upsert step of start()
\* leaves exactly one row per job id; the row of the upserted id carries the
\* definition's schedule, workflow id, input data and enabled flag; its
\* last_run_at is what the row held before, or null when the id is new; and
\* no other row changes.
UpsertKeepsLastRun ==
    [][pc = "upsert" /\ idx' = idx + 1 =>
          LET job == jobs[idx] IN
          /\ KeyUnique(store')
          /\ Cardinality({r \in store' : r.job_id = job.id}) = 1
          /\ \A r \in store' :
                r.job_id = job.id =>
                    /\ r.schedule = job.schedule
                    /\ r.workflow_id = job.workflowId
                    /\ r.input_data = JsonStringify(job.inputData)
                    /\ r.enabled = EnabledColumn(job.enabled)
                    /\ r.last_run_at = IF HasRow(store, job.id)
                                       THEN RowOf(store, job.id).last_run_at
                                       ELSE Null
          /\ {r \in store' : r.job_id # job.id} = {r \in store : r.job_id # job.id}
    ]_vars

\* start() has just re-registered a job whose row an earlier lifetime had
\* stamped: schedule, workflow, input and enabled flag are the new ones, the
\* stamp is the old one
UpsertKeepsLastRunWitness ==
    /\ pc = "upsert"
    /\ idx > 1
    /\ \E r \in store :
          /\ r.job_id = jobs[idx - 1].id
          /\ r.last_run_at = 0
          /\ r.schedule = "never"
          /\ r.workflow_id = "missingWorkflow"
          /\ r.input_data = "{k:1}"
          /\ r.enabled = 1

\* C11 (last_run_at never goes back): no step replaces a stored last_run_at
\* by null or by an earlier instant.
LastRunMonotonic ==
    [][\A r \in store : \A r2 \in store' :
          r.job_id = r2.job_id /\ r.last_run_at # Null =>
              r2.last_run_at >= r.last_run_at]_vars

\* an execution has replaced a stamp written earlier in this process by a
\* later one
LastRunMonotonicWitness ==
    \E e \in execs :
        /\ e.phase = "done" /\ e.wrote
        /\ e.prev >= StartTime
        /\ e.now > e.prev
        /\ RowOf(store, e.job_id).last_run_at = e.now

\* C12 (null means never executed): when an execution ends its completion
\* path, the row of its job holds a last_run_at.
NullMeansNeverExecuted ==
    [][\A e \in execs :
          e.phase = "done" /\ e \notin execs' =>
              RowOf(store', e.job_id).last_run_at # Null]_vars

\* C17 (a failed record is not escalated): after a rejected updateLastRun the
\* row holds the last_run_at it held before, the id is still in the running
\* set, and the next step of the execution removes it and changes nothing
\* else; the running set always holds exactly the ids of the executions in
\* flight, and no pass is cut short by an exception.
RecordFailureContained ==
    /\ [](/\ \A e \in execs :
               e.phase = "done" /\ ~e.wrote =>
                   /\ RowOf(store, e.job_id).last_run_at = e.prev
                   /\ e.job_id \in running
          /\ running = {e.job_id : e \in execs}
          /\ PassRan => ~lastPass.threw)
    /\ [][\A e \in execs :
             e.phase = "done" /\ ~e.wrote /\ e \notin execs' =>
                 /\ running' = running \ {e.job_id}
                 /\ execs' = execs \ {e}
                 /\ store' = store
                 /\ pc' = pc]_vars

\* the record of a run of a job with a stamp of an earlier lifetime has
\* failed while the other job is still running
RecordFailureContainedWitness ==
    \E e1, e2 \in execs :
        /\ e1.phase = "done" /\ ~e1.wrote
        /\ e1.prev = 0
        /\ RowOf(store, e1.job_id).last_run_at = 0
        /\ e2.job_id # e1.job_id /\ e2.phase = "run"

\* the steps start() can take from one position to the next
StartSteps ==
    {<<"new", "upsert">>, <<"new", "failed">>, <<"upsert", "catchup">>,
     <<"upsert", "failed">>, <<"catchup", "ticking">>, <<"catchup", "failed">>}

\* C13 (startup ordering): start() moves only from initialisation to the
\* upserts, to the startup pass, to the creation of the worker; before the
\* upserts are done nothing is read or launched; the startup pass begins only
\* when every registered job has its row, and is the only pass until its loop
\* has run; the worker thread exists, and ticks are handled, only after that
\* loop; and a start() that failed at init, at an upsert or at the read has
\* launched nothing and created no worker.
StartupOrdering ==
    /\ [](/\ pc \in {"new", "upsert", "failed"} =>
               execs = {} /\ running = {} /\ passes = EmptyBag
          /\ pc = "catchup" => execs = {} /\ BagCardinality(passes) = 1
          /\ pc \in {"catchup", "ticking"} =>
               /\ idx = Len(jobs) + 1
               /\ \A i \in 1..Len(jobs) : HasRow(store, jobs[i].id)
          /\ pc # "ticking" =>
               thread = "none" /\ worker = "null" /\ inbox = <<>>)
    /\ [][/\ pc' # pc => <<pc, pc'>> \in StartSteps
          /\ pc = "upsert" /\ pc' = "catchup" => idx > Len(jobs)
          /\ pc = "catchup" /\ pc' = "ticking" =>
               /\ lastPass' # NoPass
               /\ passes' = EmptyBag
               /\ thread' = "running"
               /\ \A ev \in lastPass'.evals :
                     ev.called <=> isDue(RowOfEval(ev), lastPass'.now)
          /\ BagCardinality(passes') > BagCardinality(passes) =>
               (pc = "upsert" /\ pc' = "catchup") \/ pc = "ticking"]_vars

\* start() has gone through two upserts and a startup pass that launched a
\* job, and has just created the worker: no tick has been posted yet
StartupOrderingWitness ==
    /\ pc = "ticking"
    /\ Len(jobs) = 2
    /\ PassRan
    /\ execs # {}
    /\ inbox = <<"started">>
    /\ thread = "running"

\* C14 (fire and forget): the loop of a pass ends with the executions it has
\* launched still pending; an execution whose workflow run is pending keeps
\* its id in the running set and stays the only one of its id; and a pass
\* that runs meanwhile reaches every row it read, skips exactly the ids that
\* were in the running set, and launches every other row exactly when isDue
\* finds it due.
FireAndForget ==
    /\ \A e \in execs :
          e.phase = "run" =>
              e.job_id \in running /\ ExecsOf(e.job_id) = {e}
    /\ PassRan =>
          /\ AllEvaluated
          /\ \A ev \in lastPass.evals :
                IF ev.job_id \in lastPass.before
                THEN /\ ev.skipped /\ ~ev.called
                     /\ \A e \in ExecsOf(ev.job_id) : e.now <= lastPass.now
                ELSE /\ ~ev.skipped
                     /\ ev.called <=> isDue(RowOfEval(ev), lastPass.now)
                     /\ ev.called =>
                           \E e \in ExecsOf(ev.job_id) :
                               e.now = lastPass.now /\ e.phase \in {"run", "write"}

\* a job launched when the process started is still running at the last
\* instant; the pass that has just run there skipped it and launched the
\* other job
FireAndForgetWitness ==
    /\ PassRan
    /\ lastPass.now = MaxTime
    /\ \E evA, evB \in lastPass.evals :
          /\ evA.skipped
          /\ \E e \in ExecsOf(evA.job_id) : e.phase = "run" /\ e.now = StartTime
          /\ evB.job_id # evA.job_id
          /\ evB.called

\* C18 (IDLE -> RUNNING -> IDLE): the running set holds exactly the ids of
\* the executions in flight, at most one per id; once the workflow run and
\* the updateLastRun call of an execution have ended its id leaves the
\* running set; and an idle job that is due is launched again.
RunningStateMachine ==
    /\ [](/\ running = {e.job_id : e \in execs}
          /\ \A id \in JobIds : Cardinality(ExecsOf(id)) <= 1)
    /\ \A id \in JobIds :
          (\E e \in ExecsOf(id) : e.phase = "done") ~> (id \notin running)
    /\ \A id \in JobIds :
          (/\ Settled(id) /\ id \notin running
           /\ isDue(RowOf(store, id), clock))
          ~> (id \in running)

\* a job that ran and recorded its run in this process is running again
RunningStateMachineWitness ==
    \E e \in execs :
        /\ e.phase = "run"
        /\ RowOf(store, e.job_id).last_run_at >= StartTime
        /\ e.now > RowOf(store, e.job_id).last_run_at

\* C19 (only enabled jobs run): every row a pass has read, and the row of
\* every execution, has enabled = 1; and what the pass that has just run did
\* to the running set and which jobs it launched is what the loop does for
\* every order of the rows it read.
OnlyEnabledRun ==
    /\ \A e \in execs : RowOf(store, e.job_id).enabled = 1
    /\ \A rows \in BagToSet(passes) : \A r \in rows : r.enabled = 1
    /\ PassRan =>
          /\ \A r \in lastPass.rows :
                r.enabled = 1 /\ RowOf(store, r.job_id).enabled = 1
          /\ \A order \in Orders(lastPass.rows) :
                LET st == forRows(order, lastPass.now, store,
                                  [running |-> lastPass.before, execs |-> {},
                                   evals |-> {}, threw |-> FALSE])
                IN  /\ st.running = running
                    /\ {e.job_id : e \in st.execs}
                          = {ev.job_id : ev \in {x \in lastPass.evals : x.called}}

\* a pass has just launched a job while the table holds a disabled row of
\* another job that has never run
OnlyEnabledRunWitness ==
    /\ PassRan
    /\ \E ev \in lastPass.evals : ev.called
    /\ \E r \in store :
          /\ r.enabled = 0
          /\ r.last_run_at = Null
          /\ r \notin lastPass.rows
          /\ ExecsOf(r.job_id) = {}

\* C15 (shutdown stops future ticks): once stop() has been called no
\* handleTick call is started and no pass launches a job.
StopStopsTicks ==
    [][stopped =>
          /\ BagCardinality(passes') <= BagCardinality(passes)
          /\ lastPass' # NoPass =>
                \A ev \in lastPass'.evals : ~ev.called]_vars

\* the next step of the async body of execution e
Progress(e) ==
    \/ \E threw \in BOOLEAN : Finish(e, threw)
    \/ \E ok \in BOOLEAN : WriteLastRun(e, ok)
    \/ Complete(e)

\* C16 (shutdown does not cancel in-flight work): an execution that was in
\* flight when stop() was called keeps its id in the running set, can always
\* take its next step, moves only along run -> write -> done, stores the now
\* of its pass when its updateLastRun succeeds, and leaves only from done,
\* taking its id out of the running set.
InFlightSurvivesStop ==
    /\ [](\A e \in execs :
             e.atStop =>
                 /\ stopped
                 /\ e.job_id \in running
                 /\ ENABLED Progress(e)
                 /\ e.phase = "done" /\ e.wrote =>
                       RowOf(store, e.job_id).last_run_at = e.now)
    /\ [][\A e \in execs :
             (e.atStop \/ (~stopped /\ stopped')) /\ [e EXCEPT !.atStop = TRUE] \notin execs' =>
                 \/ /\ e.phase = "run"
                    /\ \E f \in BOOLEAN :
                          [e EXCEPT !.atStop = TRUE, !.phase = "write", !.failed = f] \in execs'
                 \/ /\ e.phase = "write"
                    /\ \E e2 \in execs' :
                          /\ e2.job_id = e.job_id /\ e2.now = e.now
                          /\ e2.phase = "done" /\ e2.atStop
                          /\ e2.wrote =>
                                RowOf(store', e.job_id).last_run_at = e.now
                 \/ /\ e.phase = "done"
                    /\ e.job_id \notin running'
                    /\ ExecsOf(e.job_id)' = {}]_vars

\* an execution that was pending when stop() was called has since recorded
\* its run, after the worker thread has gone
InFlightSurvivesStopWitness ==
    /\ stopped
    /\ thread = "exited"
    /\ \E e \in execs :
          /\ e.atStop
          /\ e.phase = "done" /\ e.wrote
          /\ RowOf(store, e.job_id).last_run_at = e.now

\* the number of 'started' messages in a sequence of messages
Starteds(msgs) == Cardinality({i \in 1..Len(msgs) : msgs[i] = "started"})

\* C20 (tick source protocol): the worker posts 'started' once, when it is
\* created, ahead of every 'tick'; it posts one 'tick' at a time, and none
\* once it has received 'stop'; the delivery of 'started' changes nothing in
\* the scheduler; handleTick is called only by start() and by the delivery of
\* a 'tick', once per 'tick'; and a 'tick' whose pass is rejected leaves the
\* scheduler and the worker as they were, ready for the next 'tick'.
TickProtocol ==
    /\ [](/\ \A i \in 2..Len(inbox) : inbox[i] = "tick"
          /\ thread = "none" => inbox = <<>>)
    /\ [][/\ Starteds(inbox') > Starteds(inbox) =>
               thread = "none" /\ inbox' = <<"started">>
          /\ Len(inbox') <= Len(inbox) + 1
          /\ thread # "running" /\ thread' # "running" =>
               Len(inbox') <= Len(inbox)
          /\ thread = "exited" => thread' = "exited"
          /\ inbox # <<>> /\ Head(inbox) = "started" /\ thread' = thread
                /\ inbox' = Tail(inbox) =>
               UNCHANGED <<pc, idx, jobs, store, running, execs, passes, clock,
                           worker, stopMsg, stopped>>
          /\ BagCardinality(passes') > BagCardinality(passes) =>
               /\ BagCardinality(passes') = BagCardinality(passes) + 1
               /\ \/ pc = "upsert" /\ pc' = "catchup"
                  \/ /\ inbox # <<>> /\ Head(inbox) = "tick"
                     /\ inbox' = Tail(inbox)
          /\ inbox # <<>> /\ Head(inbox) = "tick" /\ thread' = thread
                /\ inbox' = Tail(inbox) /\ passes' = passes =>
               UNCHANGED <<pc, idx, jobs, store, running, execs, clock,
                           worker, stopMsg, stopped>>
          /\ inbox # <<>> /\ Head(inbox) = "tick" /\ Len(inbox') < Len(inbox) =>
               \/ inbox' = Tail(inbox) /\ thread' = thread
               \/ stopMsg /\ thread' = "exited" /\ inbox' = <<>>]_vars

\* the worker has received 'stop' while a 'tick' it had posted is still to
\* be delivered, and an earlier 'tick' has started a pass
TickProtocolWitness ==
    /\ thread = "exited"
    /\ inbox = <<"tick">>
    /\ BagCardinality(passes) = 1

----------------------------------------------------------------------------
(***************************************************************************)
(* The note router.                                                        *)
(*   src/unnamed/part_001   vault-index.md, the taxonomy document          *)
(*   src/unnamed/part_003   parseVaultIndex (lines 111-121)                *)
(*   src/src/mastra/workflows/note-router-workflow.ts                      *)
(*   src/src/mastra/workflows/process-notes-workflow.ts                    *)
(*   src/src/mastra/webhooks/handlers.ts                                   *)
(*                                                                         *)
(* A string is the sequence of its characters and a document the sequence  *)
(* of its lines (the text split at its newlines), so that the regular      *)
(* expressions of parseVaultIndex are computed character by character.     *)
(***************************************************************************)

UpperCase == <<"A", "B", "C", "D", "E", "F", "G", "H", "I", "J", "K", "L", "M",
               "N", "O", "P", "Q", "R", "S", "T", "U", "V", "W", "X", "Y", "Z">>

LowerCase == <<"a", "b", "c", "d", "e", "f", "g", "h", "i", "j", "k", "l", "m",
               "n", "o", "p", "q", "r", "s", "t", "u", "v", "w", "x", "y", "z">>

Digits == {"0", "1", "2", "3", "4", "5", "6", "7", "8", "9"}

\* String.prototype.toLowerCase, one character
lowerChar(c) ==
    IF \E i \in 1..26 : UpperCase[i] = c
    THEN LowerCase[CHOOSE i \in 1..26 : UpperCase[i] = c]
    ELSE c

toLowerCase(s) == [i \in 1..Len(s) |-> lowerChar(s[i])]

\* the class [a-z0-9]
IsAlnum(c) == c \in Digits \/ \E i \in 1..26 : LowerCase[i] = c

\* the class \s within a line
IsSpace(c) == c \in {" ", "\t"}

Min(S) == CHOOSE x \in S : \A y \in S : x <= y

Max(S) == CHOOSE x \in S : \A y \in S : x >= y

\* s without its first n characters
Drop(s, n) == SubSeq(s, n + 1, Len(s))

startsWith(s, p) == Len(s) >= Len(p) /\ SubSeq(s, 1, Len(p)) = p

\* String.prototype.indexOf counted from 1; 0 when p does not occur
indexOf(s, p) ==
    LET at == {i \in 1..(Len(s) - Len(p) + 1) : SubSeq(s, i, i + Len(p) - 1) = p}
    IN  IF at = {} THEN 0 ELSE Min(at)

trimStart(s) ==
    LET ink == {i \in 1..Len(s) : ~IsSpace(s[i])}
    IN  IF ink = {} THEN <<>> ELSE SubSeq(s, Min(ink), Len(s))

trim(s) ==
    LET ink == {i \in 1..Len(s) : ~IsSpace(s[i])}
    IN  IF ink = {} THEN <<>> ELSE SubSeq(s, Min(ink), Max(ink))

HeadingMark == <<"#", "#", " ">>

DefaultMark == <<"(", "d", "e", "f", "a", "u", "l", "t", ")">>

PathKey == <<"*", "*", "P", "a", "t", "h", "*", "*", ":">>

\* markdown.split(/^## /m).slice(1) (line 112): one section per line that
\* begins with "## ", holding the rest of that line and the lines up to the
\* next such line; the text ahead of the first one is dropped
RECURSIVE sectionsFrom(_, _)
sectionsFrom(doc, i) ==
    IF i > Len(doc) THEN <<>>
    ELSE IF startsWith(doc[i], HeadingMark)
    THEN LET nexts == {j \in (i + 1)..Len(doc) : startsWith(doc[j], HeadingMark)}
             end == IF nexts = {} THEN Len(doc) ELSE Min(nexts) - 1
         IN  <<<<Drop(doc[i], Len(HeadingMark))>> \o SubSeq(doc, i + 1, end)>>
                \o sectionsFrom(doc, end + 1)
    ELSE sectionsFrom(doc, i + 1)

\* section.trim().split('\n')[0] (line 114): the first line of the section
\* that is not blank, without the white space ahead of it
firstLine(section) ==
    LET ink == {i \in 1..Len(section) : trim(section[i]) # <<>>}
    IN  IF ink = {} THEN <<>> ELSE trimStart(section[Min(ink)])

\* .replace(/\s*\(default\)\s*/i, '') (line 115): the first "(default)", in
\* any case, goes with the white space on both sides of it
removeDefault(s) ==
    LET at == indexOf(toLowerCase(s), DefaultMark)
        before == {i \in 1..at : \A k \in i..(at - 1) : IsSpace(s[k])}
        end == at + Len(DefaultMark)
        after == {j \in end..(Len(s) + 1) : \A k \in end..(j - 1) : IsSpace(s[k])}
    IN  IF at = 0 THEN s
        ELSE SubSeq(s, 1, Min(before) - 1) \o SubSeq(s, Max(after), Len(s))

\* .replace(/[^a-z0-9]+/g, '-') (line 116)
RECURSIVE hyphenate(_)
hyphenate(s) ==
    IF s = <<>> THEN <<>>
    ELSE IF IsAlnum(Head(s)) THEN <<Head(s)>> \o hyphenate(Tail(s))
    ELSE LET alnums == {i \in 1..Len(s) : IsAlnum(s[i])}
         IN  <<"-">> \o (IF alnums = {} THEN <<>>
                         ELSE hyphenate(SubSeq(s, Min(alnums), Len(s))))

slugKeepingLastHyphen(name) == hyphenate(toLowerCase(name))

\* name.toLowerCase().replace(/[^a-z0-9]+/g, '-').replace(/-$/, '') (line 116)
slug(name) ==
    LET s == hyphenate(toLowerCase(name))
    IN  IF s # <<>> /\ s[Len(s)] = "-" THEN SubSeq(s, 1, Len(s) - 1) ELSE s

\* section.match(/\*\*Path\*\*:\s*(.+)/) (line 117): <<group 1>>, or <<>> for
\* null; the group is what follows the first "**Path**:" on its line or,
\* \s* running over newlines, the next line that is not blank
pathMatch(section) ==
    LET at == {i \in 1..Len(section) : indexOf(section[i], PathKey) > 0}
    IN  IF at = {} THEN <<>>
        ELSE LET i == Min(at)
                 raw == Drop(section[i], indexOf(section[i], PathKey) + Len(PathKey) - 1)
                 later == {j \in (i + 1)..Len(section) : trim(section[j]) # <<>>}
             IN  IF trimStart(raw) # <<>> THEN <<trimStart(raw)>>
                 ELSE IF later # {} THEN <<trimStart(section[Min(later)])>>
                 ELSE IF raw # <<>> \/ \E j \in (i + 1)..Len(section) : section[j] # <<>>
                 THEN <<<<" ">>>>
                 ELSE <<>>

\* one section of parseVaultIndex (lines 113-120)
folderOf(section) ==
    LET name == trim(removeDefault(firstLine(section)))
        id == slug(name)
        m == pathMatch(section)
    IN  [id |-> id, name |-> name,
         vaultPath |-> IF m # <<>> THEN trim(m[1]) ELSE id]

\* parseVaultIndex(markdown) (lines 111-121)
parseVaultIndex(markdown) ==
    LET sections == sectionsFrom(markdown, 1)
    IN  [k \in 1..Len(sections) |-> folderOf(sections[k])]

\* lines of vault-index.md (src/unnamed/part_001) and of edits of it
Line ==
    [title |-> <<"#", " ", "V", "a", "u", "l", "t">>,
     grocery |-> <<"#", "#", " ", "G", "r", "o", "c", "e", "r", "y">>,
     toDo |-> <<"#", "#", " ", "T", "o", "-", "D", "o">>,
     inbox |-> <<"#", "#", " ", "I", "n", "b", "o", "x", " ", "(", "d", "e", "f", "a", "u", "l", "t", ")">>,
     rnd |-> <<"#", "#", " ", "R", " ", "&", " ", "D", "!">>,
     sub |-> <<"#", "#", "#", " ", "L", "a", "t", "e", "r">>,
     pathGrocery |-> <<"-", " ", "*", "*", "P", "a", "t", "h", "*", "*", ":", " ", "g", "r", "o", "c", "e", "r", "y">>,
     pathTodo |-> <<"-", " ", "*", "*", "P", "a", "t", "h", "*", "*", ":", " ", "t", "o", "d", "o">>,
     pathInbox |-> <<"-", " ", "*", "*", "P", "a", "t", "h", "*", "*", ":", " ", "i", "n", "b", "o", "x">>,
     purpose |-> <<"-", " ", "*", "*", "P", "u", "r", "p", "o", "s", "e", "*", "*", ":", " ", "T", "a", "s", "k", "s">>,
     blank |-> <<>>]

VaultLines == {Line[f] : f \in DOMAIN Line}

\* the documents of at most MaxLines lines
MaxLines == 3

Documents == UNION {[1..n -> VaultLines] : n \in 0..MaxLines}

\* the scheduler not started, for the specifications of the note router
NoScheduler ==
    /\ pc = "new"
    /\ idx = 0
    /\ jobs = <<>>
    /\ store = {}
    /\ running = {}
    /\ execs = {}
    /\ passes = EmptyBag
    /\ clock = StartTime
    /\ lastPass = NoPass
    /\ NoWorker

\* calls of parseVaultIndex on one document
MaxParses == 2

InitVault ==
    /\ NoScheduler
    /\ vaultIndex \in Documents
    /\ parsed = <<>>
    /\ notes = <<>>
    /\ runs = <<>>
    /\ tasks = {}
    /\ sent = {}
    /\ presses = 0
    /\ scans = 0
    /\ edits = 0
    /\ responses = <<>>
    /\ NoIntegrations

ParseVault ==
    /\ Len(parsed) < MaxParses
    /\ parsed' = Append(parsed, parseVaultIndex(vaultIndex))
    /\ UNCHANGED <<vaultIndex, notes, runs, tasks, sent, presses, scans, edits>>
    /\ UNCHANGED <<scheduler, responses, integrations>>

SpecVault == InitVault /\ [][ParseVault]_vars

----------------------------------------------------------------------------
(* The note router: values *)

\* the taxonomy as shipped (src/unnamed/part_001, four of its sections) and
\* as a user may edit it: a folder removed; the Inbox section removed and the
\* Path field of To-Do dropped
DocShipped == <<Line.title, Line.blank,
                Line.grocery, Line.pathGrocery, Line.purpose, Line.blank,
                Line.toDo, Line.pathTodo, Line.blank,
                Line.inbox, Line.pathInbox>>

Taxonomies ==
    {DocShipped,
     <<Line.title, Line.blank,
       Line.grocery, Line.pathGrocery, Line.purpose, Line.blank,
       Line.inbox, Line.pathInbox>>,
     <<Line.title, Line.blank,
       Line.grocery, Line.pathGrocery, Line.blank,
       Line.toDo, Line.purpose>>}

\* folders.find(pred) (Array.prototype.find): <<the first match>> or <<>>
find(folders, Pred(_)) ==
    LET at == {k \in 1..Len(folders) : Pred(folders[k])}
    IN  IF at = {} THEN <<>> ELSE <<folders[Min(at)]>>

InboxId == <<"i", "n", "b", "o", "x">>

\* { id: 'inbox', name: 'Inbox', vaultPath: 'inbox' } (note-router-workflow.ts
\* line 55, part_003 line 137)
BuiltInInbox == [id |-> InboxId, name |-> <<"I", "n", "b", "o", "x">>, vaultPath |-> InboxId]

\* what the classifier may answer for targetFolder: an id, a vaultPath, a
\* word that is no folder, and <<>> for an empty or missing targetFolder
TargetFolders == {<<"g", "r", "o", "c", "e", "r", "y">>,
                  <<"t", "o", "-", "d", "o">>,
                  <<"t", "o", "d", "o">>,
                  <<"p", "r", "o", "d", "u", "c", "e">>,
                  <<>>}

resolveTargetByIdOnly(folders, targetFolder) ==
    LET target == IF targetFolder = <<>> THEN InboxId ELSE targetFolder
        matched == find(folders, LAMBDA f : f.id = target)
        inboxEntry == find(folders, LAMBDA f : f.id = InboxId)
        fallback == IF inboxEntry # <<>> THEN inboxEntry[1] ELSE BuiltInInbox
    IN  IF matched # <<>> THEN matched[1] ELSE fallback

\* lines 52-56 of note-router-workflow.ts (and 136-138 of part_003): the
\* folder for the classifier's targetFolder
resolveTarget(folders, targetFolder) ==
    LET target == IF targetFolder = <<>> THEN InboxId ELSE targetFolder
        matched == find(folders, LAMBDA f : f.id = target \/ f.vaultPath = target)
        inboxEntry == find(folders, LAMBDA f : f.id = InboxId)
        fallback == IF inboxEntry # <<>> THEN inboxEntry[1] ELSE BuiltInInbox
    IN  IF matched # <<>> THEN matched[1] ELSE fallback

\* the text the classifier agent answers with (line 46): whether it holds a
\* {...} block (line 48), whether the block parses (line 51), and the
\* targetFolder of the parsed object
Replies ==
    {[block |-> FALSE, json |-> FALSE, targetFolder |-> <<>>],
     [block |-> TRUE, json |-> FALSE, targetFolder |-> <<>>]}
    \cup {[block |-> TRUE, json |-> TRUE, targetFolder |-> t] : t \in TargetFolders}

\* run ids as the engine hands them out, as text
RunIdOf(r) == <<<<"1", "2", "3", "4", "5", "6", "7", "8", "9">>[r]>>

Colon == ":"

\* `route:${action}:${...}` (note-router-workflow.ts lines 105-106,
\* handlers.ts line 479): the parts joined by colons
RECURSIVE joinColon(_)
joinColon(parts) ==
    IF Len(parts) = 0 THEN <<>>
    ELSE IF Len(parts) = 1 THEN parts[1]
    ELSE parts[1] \o <<Colon>> \o joinColon(Tail(parts))

\* cb.data.split(":") (handlers.ts line 455)
RECURSIVE split(_)
split(s) ==
    LET at == {i \in 1..Len(s) : s[i] = Colon}
    IN  IF at = {} THEN <<s>>
        ELSE <<SubSeq(s, 1, Min(at) - 1)>> \o split(SubSeq(s, Min(at) + 1, Len(s)))

\* the words of the callback data (handlers.ts lines 443-445)
Word ==
    [route |-> <<"r", "o", "u", "t", "e">>,
     confirm |-> <<"c", "o", "n", "f", "i", "r", "m">>,
     change |-> <<"c", "h", "a", "n", "g", "e">>,
     select |-> <<"s", "e", "l", "e", "c", "t">>]

\* parts[k] of a JavaScript array: undefined (here <<>>) past its end
part(parts, k) == IF k <= Len(parts) THEN parts[k] ELSE <<>>

\* the directory NOTES_ROOT/telegram and join(NOTES_ROOT, vaultPath, '+')
TelegramDir == [base |-> <<"t", "e", "l", "e", "g", "r", "a", "m">>, plus |-> FALSE]

InboxOf(vaultPath) == [base |-> vaultPath, plus |-> TRUE]

----------------------------------------------------------------------------
(* The note router: state *)

MaxNotes == 1
MaxRuns == 2
MaxScans == 2
MaxPresses == 2
MaxEdits == 1

NoteNames == 1..MaxNotes

\* frontmatter.chatId of a note: Chat, or NoChat when the field is missing
Chat == 1

NoChat == 0

\* the output of classify-note (lines 58-65; noteBody, a copy of the note's
\* text, is left out)
NoClassification ==
    [filePath |-> 0, chatId |-> NoChat, suggestedFolderId |-> <<>>,
     suggestedFolderName |-> <<>>, suggestedFolderPath |-> <<>>]

\* an asynchronous execution in flight: a workflow run up to its suspension
\* (kind "run"), the handler of a callback query with the steps of the run it
\* resumes (kind "cb"), a pass of scan-and-process (kind "scan")
NoTask ==
    [kind |-> "none", id |-> 0, at |-> "none", run |-> 0, chat |-> NoChat,
     data |-> <<>>, runId |-> <<>>, selectedFolderId |-> <<>>,
     folders |-> <<>>, cls |-> NoClassification, files |-> {}, file |-> 0]

\* the output of a run that has not returned, and of route-note (lines
\* 155-160; routedAt, a time of day, is left out)
NoResult == [success |-> FALSE, filePath |-> [dir |-> TelegramDir, name |-> 0],
             routedTo |-> <<>>]

RouteOutput(n, cls) ==
    [success |-> TRUE,
     filePath |-> [dir |-> InboxOf(cls.suggestedFolderPath), name |-> n],
     routedTo |-> cls.suggestedFolderName]

\* the snapshot the workflow engine keeps of a run, with the history of the
\* run: prompted (the confirmation prompt was sent), suspended (it has been
\* suspended), resumed (times a resume was accepted), passed (times
\* await-confirmation returned on a resume), moved (times its note was moved),
\* scan (the scan pass that started it), error (where it threw) and failedAt
\* (the number of scan passes begun when it threw)
NewRun(n, scan) ==
    [note |-> n, status |-> "running", cls |-> NoClassification,
     prompted |-> FALSE, suspended |-> FALSE, resumed |-> 0, passed |-> 0,
     moved |-> 0, result |-> NoResult, scan |-> scan, error |-> "none",
     failedAt |-> 0]

\* a step of run r has thrown: the engine records the run as failed
Failed(r, where) ==
    [runs EXCEPT ![r].status = "failed", ![r].error = where, ![r].failedAt = scans]

Replace(t, u) == (tasks \ {t}) \cup {u}

\* the inline keyboard of the confirmation prompt (lines 103-107)
promptKeyboard(runId) ==
    <<[text |-> Word.confirm, callback_data |-> joinColon(<<Word.route, Word.confirm, runId>>)],
      [text |-> Word.change, callback_data |-> joinColon(<<Word.route, Word.change, runId>>)]>>

\* the keyboard of the folder menu (handlers.ts lines 477-479)
menuKeyboard(folders, runId) ==
    [k \in 1..Len(folders) |->
        [text |-> folders[k].name,
         callback_data |-> joinColon(<<Word.route, Word.select, folders[k].id, runId>>)]]

\* a message sent to a Telegram chat
Message(kind, chat, name, keyboard) ==
    [kind |-> kind, chat |-> chat, name |-> name, keyboard |-> keyboard]

----------------------------------------------------------------------------
(* The note router: actions.  Each is one synchronous stretch of a step or  *)
(* of a handler, from one await to the next.                                *)

\* scan-and-process: files = await listMdFiles(NOTES_ROOT/telegram)
\* (process-notes-workflow.ts line 13)
ScanList ==
    /\ scans < MaxScans
    /\ scans' = scans + 1
    /\ LET files == {n \in NoteNames : notes[n].dir = TelegramDir}
       IN  tasks' = IF files = {} THEN tasks
                    ELSE tasks \cup {[NoTask EXCEPT !.kind = "scan", !.id = scans + 1,
                                                    !.at = "read", !.files = files]}
    /\ UNCHANGED <<vaultIndex, parsed, notes, runs, sent, presses, edits>>
    /\ UNCHANGED <<scheduler, responses, integrations>>

\* the loop of scan-and-process at a file (lines 18-24): readMdFile rejects
\* when the file is gone; a note whose status is not 'unprocessed' is skipped;
\* after the last file the step returns (line 37)
ScanRead(t, n) ==
    /\ t \in tasks /\ t.kind = "scan" /\ t.at = "read"
    /\ n \in t.files
    /\ tasks' = IF notes[n].dir # TelegramDir THEN tasks \ {t}
                ELSE IF notes[n].status # "unprocessed"
                THEN IF t.files = {n} THEN tasks \ {t}
                     ELSE Replace(t, [t EXCEPT !.files = @ \ {n}])
                ELSE Replace(t, [t EXCEPT !.at = "launch", !.file = n])
    /\ UNCHANGED <<vaultIndex, parsed, notes, runs, sent, presses, scans, edits>>
    /\ UNCHANGED <<scheduler, responses, integrations>>

\* run = await workflow.createRun(); run.start({ inputData: { filePath } }),
\* not awaited (lines 26-33)
ScanLaunch(t) ==
    /\ t \in tasks /\ t.kind = "scan" /\ t.at = "launch"
    /\ Len(runs) < MaxRuns
    /\ runs' = Append(runs, NewRun(t.file, t.id))
    /\ tasks' = (IF t.files = {t.file} THEN tasks \ {t}
                 ELSE Replace(t, [t EXCEPT !.at = "read", !.files = @ \ {t.file},
                                           !.file = 0]))
                  \cup {[NoTask EXCEPT !.kind = "run", !.id = Len(runs) + 1,
                                       !.run = Len(runs) + 1, !.at = "read"]}
    /\ UNCHANGED <<vaultIndex, parsed, notes, sent, presses, scans, edits>>
    /\ UNCHANGED <<scheduler, responses, integrations>>

\* classify-note, lines 27-30: the note is read; no chatId, or no file, throws
ClassifyRead(t) ==
    /\ t \in tasks /\ t.kind = "run" /\ t.at = "read"
    /\ LET n == runs[t.run].note
       IN  IF notes[n].dir # TelegramDir \/ notes[n].chatId = NoChat
           THEN /\ runs' = Failed(t.run, "read")
                /\ tasks' = tasks \ {t}
           ELSE /\ tasks' = Replace(t, [t EXCEPT !.at = "mark",
                                                 !.cls.filePath = n,
                                                 !.cls.chatId = notes[n].chatId])
                /\ UNCHANGED runs
    /\ UNCHANGED <<vaultIndex, parsed, notes, sent, presses, scans, edits>>
    /\ UNCHANGED <<scheduler, responses, integrations>>

loadFoldersCached == parseVaultIndex(DocShipped)

\* the taxonomy a request works with: vault-index.md read and parsed
\* (note-router-workflow.ts lines 36-38 and 83-85, handlers.ts lines 474-476)
loadFolders == parseVaultIndex(vaultIndex)

ClassifyMarkSkipped(t, ok) ==
    /\ t \in tasks /\ t.kind = "run" /\ t.at = "mark"
    /\ LET n == runs[t.run].note
       IN  IF ok /\ notes[n].dir = TelegramDir
           THEN /\ tasks' = Replace(t, [t EXCEPT !.at = "generate",
                                                 !.folders = loadFolders])
                /\ UNCHANGED <<runs, notes>>
           ELSE /\ runs' = Failed(t.run, "mark")
                /\ tasks' = tasks \ {t}
                /\ UNCHANGED notes
    /\ UNCHANGED <<vaultIndex, parsed, sent, presses, scans, edits>>
    /\ UNCHANGED <<scheduler, responses, integrations>>

\* lines 33-38: await updateMdFrontmatter(filePath, { status: 'processing' }),
\* then the taxonomy is read and parsed (the two touch different files, so
\* they are taken as one step)
ClassifyMark(t, ok) ==
    /\ t \in tasks /\ t.kind = "run" /\ t.at = "mark"
    /\ LET n == runs[t.run].note
       IN  IF ok /\ notes[n].dir = TelegramDir
           THEN /\ notes' = [notes EXCEPT ![n].status = "processing"]
                /\ tasks' = Replace(t, [t EXCEPT !.at = "generate",
                                                 !.folders = loadFolders])
                /\ UNCHANGED runs
           ELSE /\ runs' = Failed(t.run, "mark")
                /\ tasks' = tasks \ {t}
                /\ UNCHANGED notes
    /\ UNCHANGED <<vaultIndex, parsed, sent, presses, scans, edits>>
    /\ UNCHANGED <<scheduler, responses, integrations>>

\* lines 46-65: the classifier has answered; a reply without a {...} block or
\* with a block that does not parse throws
ClassifyReply(t, reply) ==
    /\ t \in tasks /\ t.kind = "run" /\ t.at = "generate"
    /\ IF ~reply.block \/ ~reply.json
       THEN /\ runs' = Failed(t.run, "reply")
            /\ tasks' = tasks \ {t}
       ELSE LET folder == resolveTarget(t.folders, reply.targetFolder)
            IN  /\ tasks' = Replace(t, [t EXCEPT !.at = "prompt",
                                  !.cls.suggestedFolderId = folder.id,
                                  !.cls.suggestedFolderName = folder.name,
                                  !.cls.suggestedFolderPath = folder.vaultPath])
                /\ UNCHANGED runs
    /\ UNCHANGED <<vaultIndex, parsed, notes, sent, presses, scans, edits>>
    /\ UNCHANGED <<scheduler, responses, integrations>>

\* await-confirmation, first execution, lines 99-113: the prompt is sent
SendPrompt(t, ok) ==
    /\ t \in tasks /\ t.kind = "run" /\ t.at = "prompt"
    /\ IF ok
       THEN /\ sent' = sent \cup {Message("prompt", t.cls.chatId,
                                           t.cls.suggestedFolderName,
                                           promptKeyboard(RunIdOf(t.run)))}
            /\ runs' = [runs EXCEPT ![t.run].prompted = TRUE]
            /\ tasks' = Replace(t, [t EXCEPT !.at = "suspend"])
       ELSE /\ runs' = Failed(t.run, "prompt")
            /\ tasks' = tasks \ {t}
            /\ UNCHANGED sent
    /\ UNCHANGED <<vaultIndex, parsed, notes, presses, scans, edits>>
    /\ UNCHANGED <<scheduler, responses, integrations>>

SuspendSkipped(t) ==
    /\ t \in tasks /\ t.kind = "run" /\ t.at = "suspend"
    /\ runs' = [runs EXCEPT ![t.run].passed = @ + 1]
    /\ tasks' = Replace(t, [t EXCEPT !.kind = "cb", !.at = "move"])
    /\ UNCHANGED <<vaultIndex, parsed, notes, sent, presses, scans, edits>>
    /\ UNCHANGED <<scheduler, responses, integrations>>

\* lines 115-121: return suspend(...); the engine keeps the run as suspended
\* at await-confirmation, with the step's input
Suspend(t) ==
    /\ t \in tasks /\ t.kind = "run" /\ t.at = "suspend"
    /\ runs' = [runs EXCEPT ![t.run].status = "suspended", ![t.run].cls = t.cls,
                            ![t.run].suspended = TRUE]
    /\ tasks' = tasks \ {t}
    /\ UNCHANGED <<vaultIndex, parsed, notes, sent, presses, scans, edits>>
    /\ UNCHANGED <<scheduler, responses, integrations>>

\* a button of a message the bot has sent is pressed and Telegram posts a
\* callback query with the button's callback_data and the message's chat:
\* handleTelegramCallbackQuery, handlers.ts lines 448-456 (and 459, 469, 485,
\* 486).  The query is acknowledged, which may fail, and its data split at
\* the colons.
CallbackQuery(m, b, ok) ==
    /\ presses < MaxPresses
    /\ m \in sent /\ b \in 1..Len(m.keyboard)
    /\ presses' = presses + 1
    /\ LET data == m.keyboard[b].callback_data
           parts == split(data)
           action == part(parts, 2)
           t == [NoTask EXCEPT !.kind = "cb", !.id = presses + 1, !.chat = m.chat,
                               !.data = data]
       IN  tasks' =
             IF data = <<>> \/ ~ok THEN tasks
             ELSE IF action = Word.confirm
             THEN tasks \cup {[t EXCEPT !.at = "resume", !.runId = part(parts, 3)]}
             ELSE IF action = Word.change
             THEN tasks \cup {[t EXCEPT !.at = "menu", !.runId = part(parts, 3)]}
             ELSE IF action = Word.select
             THEN tasks \cup {[t EXCEPT !.at = "resume", !.runId = part(parts, 4),
                                        !.selectedFolderId = part(parts, 3)]}
             ELSE tasks
    /\ UNCHANGED <<vaultIndex, parsed, notes, runs, sent, scans, edits>>
    /\ UNCHANGED <<scheduler, responses, integrations>>

ChangeMenuResuming(t, ok) ==
    /\ t \in tasks /\ t.kind = "cb" /\ t.at = "menu"
    /\ sent' = IF t.chat # NoChat /\ ok
               THEN sent \cup {Message("menu", t.chat, <<>>,
                                       menuKeyboard(loadFolders, t.runId))}
               ELSE sent
    /\ tasks' = Replace(t, [t EXCEPT !.at = "resume"])
    /\ UNCHANGED <<vaultIndex, parsed, notes, runs, presses, scans, edits>>
    /\ UNCHANGED <<scheduler, responses, integrations>>

\* 'change', handlers.ts lines 468-482: without a chat id nothing is done;
\* otherwise the taxonomy is read and parsed and the folder menu sent
ChangeMenu(t, ok) ==
    /\ t \in tasks /\ t.kind = "cb" /\ t.at = "menu"
    /\ sent' = IF t.chat # NoChat /\ ok
               THEN sent \cup {Message("menu", t.chat, <<>>,
                                       menuKeyboard(loadFolders, t.runId))}
               ELSE sent
    /\ tasks' = tasks \ {t}
    /\ UNCHANGED <<vaultIndex, parsed, notes, runs, presses, scans, edits>>
    /\ UNCHANGED <<scheduler, responses, integrations>>

\* 'confirm' and 'select', handlers.ts lines 460-466 and 487-491:
\* workflow.createRun({ runId }) and run.resume({ resumeData, step }).  The
\* engine reads the snapshot it keeps of the run and rejects the call unless
\* the run is suspended at that step.  Each request makes its own run object
\* and the snapshot is in the engine's store (index.ts, storage: LibSQLStore),
\* so the read is one turn of the event loop and the step that the resume
\* executes is a later one: Confirm below.
ResumeLoad(t) ==
    /\ t \in tasks /\ t.kind = "cb" /\ t.at = "resume"
    /\ IF \E r \in 1..Len(runs) : RunIdOf(r) = t.runId /\ runs[r].status = "suspended"
       THEN LET r == CHOOSE r \in 1..Len(runs) : RunIdOf(r) = t.runId
            IN  /\ tasks' = Replace(t, [t EXCEPT !.at = "confirm", !.run = r,
                                                 !.cls = runs[r].cls])
                /\ runs' = [runs EXCEPT ![r].resumed = @ + 1]
       ELSE /\ tasks' = tasks \ {t}
            /\ UNCHANGED runs
    /\ UNCHANGED <<vaultIndex, parsed, notes, sent, presses, scans, edits>>
    /\ UNCHANGED <<scheduler, responses, integrations>>

\* await-confirmation on a resume, lines 80-81 and 96: with no other folder
\* selected the step returns its input
Confirm(t) ==
    /\ t \in tasks /\ t.kind = "cb" /\ t.at = "confirm"
    /\ IF t.selectedFolderId # <<>> /\ t.selectedFolderId # t.cls.suggestedFolderId
       THEN /\ tasks' = Replace(t, [t EXCEPT !.at = "pick"])
            /\ UNCHANGED runs
       ELSE /\ tasks' = Replace(t, [t EXCEPT !.at = "move"])
            /\ runs' = [runs EXCEPT ![t.run].status = "running",
                                    ![t.run].passed = @ + 1]
    /\ UNCHANGED <<vaultIndex, parsed, notes, sent, presses, scans, edits>>
    /\ UNCHANGED <<scheduler, responses, integrations>>

\* lines 82-96: what the step returns when another folder is selected
pickFolder(in, folders, selectedFolderId) ==
    LET picked == find(folders, LAMBDA f : f.id = selectedFolderId)
    IN  IF picked # <<>>
        THEN [in EXCEPT !.suggestedFolderId = picked[1].id,
                        !.suggestedFolderName = picked[1].name,
                        !.suggestedFolderPath = picked[1].vaultPath]
        ELSE in

\* lines 82-96: the taxonomy is read again and the selected folder looked up
ConfirmPick(t) ==
    /\ t \in tasks /\ t.kind = "cb" /\ t.at = "pick"
    /\ tasks' = Replace(t, [t EXCEPT !.at = "move",
                              !.cls = pickFolder(t.cls, loadFolders, t.selectedFolderId)])
    /\ runs' = [runs EXCEPT ![t.run].status = "running", ![t.run].passed = @ + 1]
    /\ UNCHANGED <<vaultIndex, parsed, notes, sent, presses, scans, edits>>
    /\ UNCHANGED <<scheduler, responses, integrations>>

\* a route-note that writes the frontmatter where the note lies before it
\* moves the file
RouteMoveAfterUpdate(t, ok) ==
    /\ t \in tasks /\ t.kind = "cb" /\ t.at = "move"
    /\ LET n == t.cls.filePath
       IN  IF ok /\ notes[n].dir = TelegramDir
           THEN /\ notes' = [notes EXCEPT ![n].status = "processed",
                                          ![n].routedTo = t.cls.suggestedFolderName]
                /\ tasks' = Replace(t, [t EXCEPT !.at = "update"])
                /\ UNCHANGED runs
           ELSE /\ runs' = Failed(t.run, "move")
                /\ tasks' = tasks \ {t}
                /\ UNCHANGED notes
    /\ UNCHANGED <<vaultIndex, parsed, sent, presses, scans, edits>>
    /\ UNCHANGED <<scheduler, responses, integrations>>

\* route-note, lines 134-139: moveMdFile renames the note into the '+'
\* directory of the folder; the rename rejects when the file is not there
RouteMove(t, ok) ==
    /\ t \in tasks /\ t.kind = "cb" /\ t.at = "move"
    /\ LET n == t.cls.filePath
       IN  IF ok /\ notes[n].dir = TelegramDir
           THEN /\ notes' = [notes EXCEPT ![n].dir = InboxOf(t.cls.suggestedFolderPath)]
                /\ runs' = [runs EXCEPT ![t.run].moved = @ + 1]
                /\ tasks' = Replace(t, [t EXCEPT !.at = "update"])
           ELSE /\ runs' = Failed(t.run, "move")
                /\ tasks' = tasks \ {t}
                /\ UNCHANGED notes
    /\ UNCHANGED <<vaultIndex, parsed, sent, presses, scans, edits>>
    /\ UNCHANGED <<scheduler, responses, integrations>>

\* lines 142-146: status 'processed', routedTo and routedAt are written
RouteUpdate(t, ok) ==
    /\ t \in tasks /\ t.kind = "cb" /\ t.at = "update"
    /\ LET n == t.cls.filePath
       IN  IF ok
           THEN /\ notes' = [notes EXCEPT ![n].status = "processed",
                                          ![n].routedTo = t.cls.suggestedFolderName]
                /\ tasks' = Replace(t, [t EXCEPT !.at = "notify"])
                /\ UNCHANGED runs
           ELSE /\ runs' = Failed(t.run, "update")
                /\ tasks' = tasks \ {t}
                /\ UNCHANGED notes
    /\ UNCHANGED <<vaultIndex, parsed, sent, presses, scans, edits>>
    /\ UNCHANGED <<scheduler, responses, integrations>>

RouteNotifyThrowing(t, ok) ==
    /\ t \in tasks /\ t.kind = "cb" /\ t.at = "notify"
    /\ sent' = IF ok THEN sent \cup {Message("routed", t.cls.chatId,
                                              t.cls.suggestedFolderName, <<>>)}
               ELSE sent
    /\ runs' = IF ok
               THEN [runs EXCEPT ![t.run].status = "success",
                                 ![t.run].result = RouteOutput(t.cls.filePath, t.cls)]
               ELSE Failed(t.run, "notify")
    /\ tasks' = tasks \ {t}
    /\ UNCHANGED <<vaultIndex, parsed, notes, presses, scans, edits>>
    /\ UNCHANGED <<scheduler, responses, integrations>>

\* lines 149-161: the human is told, a failure of which is swallowed, and the
\* step returns success
RouteNotify(t, ok) ==
    /\ t \in tasks /\ t.kind = "cb" /\ t.at = "notify"
    /\ sent' = IF ok THEN sent \cup {Message("routed", t.cls.chatId,
                                              t.cls.suggestedFolderName, <<>>)}
               ELSE sent
    /\ runs' = [runs EXCEPT ![t.run].status = "success",
                            ![t.run].result = RouteOutput(t.cls.filePath, t.cls)]
    /\ tasks' = tasks \ {t}
    /\ UNCHANGED <<vaultIndex, parsed, notes, presses, scans, edits>>
    /\ UNCHANGED <<scheduler, responses, integrations>>

\* the user edits vault-index.md
Edit(doc) ==
    /\ edits < MaxEdits
    /\ doc \in Taxonomies \ {vaultIndex}
    /\ vaultIndex' = doc
    /\ edits' = edits + 1
    /\ UNCHANGED <<parsed, notes, runs, tasks, sent, presses, scans>>
    /\ UNCHANGED <<scheduler, responses, integrations>>

----------------------------------------------------------------------------
(* The note router: specification *)

\* notes waiting in NOTES_ROOT/telegram, the taxonomy as shipped, no run yet
InitRouter ==
    /\ NoScheduler
    /\ vaultIndex = DocShipped
    /\ parsed = <<>>
    /\ notes \in [NoteNames -> {[dir |-> TelegramDir, status |-> "unprocessed",
                                 chatId |-> c, routedTo |-> <<>>] : c \in {Chat, NoChat}}]
    /\ runs = <<>>
    /\ tasks = {}
    /\ sent = {}
    /\ presses = 0
    /\ scans = 0
    /\ edits = 0
    /\ responses = <<>>
    /\ NoIntegrations

NextRouter ==
    \/ ScanList
    \/ \E t \in tasks, n \in NoteNames : ScanRead(t, n)
    \/ \E t \in tasks : ScanLaunch(t)
    \/ \E t \in tasks : ClassifyRead(t)
    \/ \E t \in tasks, ok \in BOOLEAN : ClassifyMark(t, ok)
    \/ \E t \in tasks, reply \in Replies : ClassifyReply(t, reply)
    \/ \E t \in tasks, ok \in BOOLEAN : SendPrompt(t, ok)
    \/ \E t \in tasks : Suspend(t)
    \/ \E m \in sent, ok \in BOOLEAN : \E b \in 1..Len(m.keyboard) : CallbackQuery(m, b, ok)
    \/ \E t \in tasks, ok \in BOOLEAN : ChangeMenu(t, ok)
    \/ \E t \in tasks : ResumeLoad(t)
    \/ \E t \in tasks : Confirm(t)
    \/ \E t \in tasks : ConfirmPick(t)
    \/ \E t \in tasks, ok \in BOOLEAN : RouteMove(t, ok)
    \/ \E t \in tasks, ok \in BOOLEAN : RouteUpdate(t, ok)
    \/ \E t \in tasks, ok \in BOOLEAN : RouteNotify(t, ok)
    \/ \E doc \in Taxonomies : Edit(doc)

SpecRouter == InitRouter /\ [][NextRouter]_vars

----------------------------------------------------------------------------
(* The webhook routes (webhooks/handlers.ts).  Header values, secrets,      *)
(* time stamps and bodies are sequences of one-character strings.           *)

\* requests answered in one behaviour
MaxRequests == 2

\* the secret of the deployment, a guess at it of the same length and its
\* first two characters
Key ==
    [secret |-> <<"k", "e", "y">>,
     guess |-> <<"k", "e", "z">>,
     prefix |-> <<"k", "e">>]

\* Math.floor(Date.now() / 1000) at the requests (line 60), and the replay
\* window in seconds (line 61)
NowSec == 900

ReplayWindow == 300

\* parseInt(timestamp, 10) (line 59): the value of the digits ahead of the
\* first other character, as <<value>>, or <<>> for NaN when there is none
RECURSIVE digitsValue(_, _)
digitsValue(s, acc) ==
    IF s = <<>> \/ Head(s) \notin Digits THEN acc
    ELSE LET digits == <<"0", "1", "2", "3", "4", "5", "6", "7", "8", "9">>
             value == (CHOOSE d \in 1..10 : digits[d] = Head(s)) - 1
         IN  digitsValue(Tail(s), 10 * acc + value)

parseInt(s) ==
    LET t == trimStart(s)
    IN  IF t = <<>> \/ Head(t) \notin Digits THEN <<>> ELSE <<digitsValue(t, 0)>>

\* crypto.createHmac("sha256", key).update(message).digest("hex"), as the
\* ideal it stands for: equal digests come from equal keys and messages only
hmac(key, message) == <<"<">> \o key \o <<"|">> \o message \o <<">">>

Sha256Prefix == <<"s", "h", "a", "2", "5", "6", "=">>

V0Prefix == <<"v", "0", "=">>

\* `v0:${timestamp}:${payload}` (line 63)
sigBasestring(timestamp, payload) ==
    <<"v", "0", ":">> \o timestamp \o <<":">> \o payload

\* crypto.timingSafeEqual(Buffer.from(a), Buffer.from(b)): throws when the
\* lengths differ
timingSafeEqual(a, b) ==
    IF Len(a) # Len(b) THEN "throws"
    ELSE IF \A i \in 1..Len(a) : a[i] = b[i] THEN "true" ELSE "false"

\* lines 27-47
verifyGitHubSignature(payload, signature, secret) ==
    IF signature = <<>> \/ secret = <<>> THEN FALSE
    ELSE timingSafeEqual(signature, Sha256Prefix \o hmac(secret, payload)) = "true"

\* a verifySlackSignature without Math.abs: only time stamps of the past are
\* taken as stale
verifySlackSignatureOneSided(payload, timestamp, signature, signingSecret) ==
    IF signature = <<>> \/ timestamp = <<>> \/ signingSecret = <<>> THEN FALSE
    ELSE LET time == parseInt(timestamp)
         IN  IF time # <<>> /\ NowSec - time[1] > ReplayWindow THEN FALSE
             ELSE timingSafeEqual(signature,
                     V0Prefix \o hmac(signingSecret,
                                      sigBasestring(timestamp, payload))) = "true"

\* lines 53-80; a comparison with NaN is false, so a time stamp that is no
\* number is taken as within the window
verifySlackSignature(payload, timestamp, signature, signingSecret) ==
    IF signature = <<>> \/ timestamp = <<>> \/ signingSecret = <<>> THEN FALSE
    ELSE LET time == parseInt(timestamp)
         IN  IF time # <<>> /\ (NowSec - time[1] > ReplayWindow
                                \/ time[1] - NowSec > ReplayWindow) THEN FALSE
             ELSE timingSafeEqual(signature,
                     V0Prefix \o hmac(signingSecret,
                                      sigBasestring(timestamp, payload))) = "true"

verifyTelegramSecretPrefix(headerToken, expectedSecret) ==
    IF headerToken = <<>> \/ expectedSecret = <<>> THEN FALSE
    ELSE \A i \in 1..Min({Len(headerToken), Len(expectedSecret)}) :
            headerToken[i] = expectedSecret[i]

\* lines 297-311
verifyTelegramSecret(headerToken, expectedSecret) ==
    IF headerToken = <<>> \/ expectedSecret = <<>> THEN FALSE
    ELSE timingSafeEqual(headerToken, expectedSecret) = "true"

\* the bodies of the requests: each stands for a JSON text with the event
\* named, Body.broken for a text that JSON.parse rejects
Body ==
    [text |-> <<"t">>,
     sticker |-> <<"u">>,
     confirm |-> <<"c">>,
     change |-> <<"g">>,
     select |-> <<"s">>,
     noData |-> <<"n">>,
     push |-> <<"p">>,
     challenge |-> <<"v">>,
     mention |-> <<"a">>,
     broken |-> <<"x">>]

Bodies(route) ==
    IF route = "telegram"
    THEN {Body.text, Body.sticker, Body.confirm, Body.change, Body.select, Body.noData,
          Body.broken}
    ELSE IF route = "github" THEN {Body.push, Body.broken}
    ELSE {Body.challenge, Body.mention, Body.broken}

\* process.env.*_SECRET: set, or not set (lines 226, 263, 511)
Secrets == {<<>>, Key.secret}

\* the x-slack-request-timestamp headers: now, the edge of the window, one
\* second beyond it, none, and one that is no number
Timestamps ==
    {<<"9", "0", "0">>, <<"6", "0", "0">>, <<"5", "9", "9">>, <<>>, <<"x">>}

\* the header a sender computes with key k for a body (and time stamp)
signed(route, k, timestamp, body) ==
    IF route = "telegram" THEN k
    ELSE IF route = "github" THEN Sha256Prefix \o hmac(k, body)
    ELSE V0Prefix \o hmac(k, sigBasestring(timestamp, body))

\* the signature or secret-token headers that arrive: none, one made with
\* the secret or with a guess for this body or for another one, and for
\* Telegram the first characters of the secret
Tokens(route, timestamp) ==
    {<<>>} \cup {signed(route, k, timestamp, b) : k \in {Key.secret, Key.guess}, b \in Bodies(route)}
           \cup (IF route = "telegram" THEN {Key.prefix} ELSE {})

\* what a route did for a request: the event handler it ran and the calls
\* it made on the workflow engine
Did(status, ran, calls) == [status |-> status, ran |-> ran, calls |-> calls]

\* handleTelegramCallbackQuery (lines 448-493) and handleTelegramMessage
\* (lines 421-439) as the route sees them: the calls made on the engine and
\* whether the handler returned (ok) or threw
telegramEvent(body, ok) ==
    IF body = Body.broken THEN Did(500, "none", {})
    ELSE IF body = Body.noData THEN Did(200, "callback", {})
    ELSE IF body \in {Body.confirm, Body.select}
    THEN IF ok THEN Did(200, "callback", {"createRun", "resume"})
         ELSE Did(500, "callback", {})
    ELSE IF body = Body.change
    THEN Did(IF ok THEN 200 ELSE 500, "callback", {})
    ELSE IF body = Body.sticker THEN Did(200, "message", {})
    ELSE Did(IF ok THEN 200 ELSE 500, "message", {"createRun", "start"})

\* one answered request: what came in, whether the calls its event handler
\* makes succeed (ok), and what the route did
Answer(route, secret, token, timestamp, body, ok, did) ==
    [route |-> route, secret |-> secret, token |-> token, timestamp |-> timestamp,
     body |-> body, ok |-> ok, status |-> did.status, ran |-> did.ran,
     calls |-> did.calls]

\* the route with the order of its first two tests exchanged: the token is
\* verified before the secret is looked at
telegramWebhookHandlerVerifyFirst(secret, secretToken, body, ok) ==
    /\ Len(responses) < MaxRequests
    /\ responses' = Append(responses,
         Answer("telegram", secret, secretToken, <<>>, body, ok,
                IF ~verifyTelegramSecret(secretToken, secret)
                THEN Did(401, "none", {})
                ELSE IF secret = <<>> THEN Did(500, "none", {})
                ELSE telegramEvent(body, ok)))
    /\ UNCHANGED <<scheduler, router, integrations>>

\* telegramWebhookHandler, lines 499-536
telegramWebhookHandler(secret, secretToken, body, ok) ==
    /\ Len(responses) < MaxRequests
    /\ responses' = Append(responses,
         Answer("telegram", secret, secretToken, <<>>, body, ok,
                IF secret = <<>> THEN Did(500, "none", {})
                ELSE IF ~verifyTelegramSecret(secretToken, secret)
                THEN Did(401, "none", {})
                ELSE telegramEvent(body, ok)))
    /\ UNCHANGED <<scheduler, router, integrations>>

\* githubWebhookHandler, lines 215-245
githubWebhookHandler(secret, signature, body) ==
    /\ Len(responses) < MaxRequests
    /\ responses' = Append(responses,
         Answer("github", secret, signature, <<>>, body, TRUE,
                IF secret = <<>> THEN Did(500, "none", {})
                ELSE IF ~verifyGitHubSignature(body, signature, secret)
                THEN Did(401, "none", {})
                ELSE IF body = Body.broken THEN Did(500, "none", {})
                ELSE Did(200, "github", {})))
    /\ UNCHANGED <<scheduler, router, integrations>>

\* slackWebhookHandler, lines 251-287
slackWebhookHandler(secret, signature, timestamp, body) ==
    /\ Len(responses) < MaxRequests
    /\ responses' = Append(responses,
         Answer("slack", secret, signature, timestamp, body, TRUE,
                IF secret = <<>> THEN Did(500, "none", {})
                ELSE IF ~verifySlackSignature(body, timestamp, signature, secret)
                THEN Did(401, "none", {})
                ELSE IF body = Body.broken THEN Did(500, "none", {})
                ELSE IF body = Body.challenge THEN Did(200, "none", {})
                ELSE Did(200, "slack", {})))
    /\ UNCHANGED <<scheduler, router, integrations>>

\* the server is up and no request has come in
InitWebhook ==
    /\ NoScheduler
    /\ NoRouter
    /\ NoIntegrations

NextWebhook ==
    \/ \E secret \in Secrets, body \in Bodies("telegram"), ok \in BOOLEAN :
          \E secretToken \in Tokens("telegram", <<>>) :
             telegramWebhookHandler(secret, secretToken, body, ok)
    \/ \E secret \in Secrets, body \in Bodies("github") :
          \E signature \in Tokens("github", <<>>) :
             githubWebhookHandler(secret, signature, body)
    \/ \E secret \in Secrets, body \in Bodies("slack"), timestamp \in Timestamps :
          \E signature \in Tokens("slack", timestamp) :
             slackWebhookHandler(secret, signature, timestamp, body)

SpecWebhook == InitWebhook /\ [][NextWebhook]_vars

----------------------------------------------------------------------------
(* Process restart *)

\* the process ends at any moment after start() was called and the
\* application is started again: a new CronScheduler is constructed (lines
\* 99-108: jobs empty, running = new Set(), worker = null) and the registry
\* cronJobs is registered; the table is what the dead process left, its
\* suspended passes and executions never continue, and its worker thread is
\* gone.  The executions it had in flight are kept as phase "lost".
Restart ==
    /\ pc # "new"
    /\ \A e \in execs : e.phase # "lost"
    /\ pc' = "new"
    /\ idx' = 0
    /\ jobs' = cronJobs
    /\ running' = {}
    /\ execs' = {[e EXCEPT !.phase = "lost"] : e \in execs}
    /\ passes' = EmptyBag
    /\ lastPass' = NoPass
    /\ worker' = "null"
    /\ thread' = "none"
    /\ inbox' = <<>>
    /\ UNCHANGED <<store, clock, stopMsg, stopped>>
    /\ UNCHANGED <<router, responses, integrations>>

\* the application over two process lifetimes
NextRestart ==
    \/ Next
    \/ Restart

SpecRestart == LiveInit /\ [][NextRestart]_vars

----------------------------------------------------------------------------
(* fetchWithRetry of the Telegram integration (part_007 lines 232-260)      *)

\* RETRY_ATTEMPTS, RETRY_BASE_DELAY_MS and FETCH_TIMEOUT_MS (lines 232-234)
Retry == [ATTEMPTS |-> 3, BASE_DELAY_MS |-> 1000, FETCH_TIMEOUT_MS |-> 30000]

\* the two requests made through fetchWithRetry (lines 310 and 335), what a
\* fetch may resolve with (fetch resolves for any HTTP status) and what it may
\* reject with, "abort" being the rejection the per-attempt timer brings on
Fetch ==
    [urls |-> {"getFile", "file"},
     responses |-> {"200", "404", "500"},
     errors |-> {"network", "dns", "abort"}]

\* one entry of the history of a call
Event(ev, n, what) == [ev |-> ev, n |-> n, what |-> what]

\* the call has entered the loop: attempt 0, its timer set, its fetch issued
\* (lines 241-246)
FetchCalled(url) ==
    [url |-> url, attempt |-> 0, at |-> "fetch", timer |-> TRUE,
     lastError |-> "none", result |-> "none", elapsed |-> 0,
     log |-> <<Event("fetch", 0, url)>>]

\* the fetch of the attempt resolves: the response is returned, the finally
\* block clears the timer (lines 246-247, 255-257)
FetchResolves(response) ==
    /\ fetching.at = "fetch"
    /\ fetching' = [fetching EXCEPT !.at = "returned", !.timer = FALSE,
                                    !.result = response,
                                    !.log = Append(@, Event("return", fetching.attempt,
                                                            response))]
    /\ UNCHANGED <<scheduler, router, responses, classifying, labelling>>

\* a catch block that waits after every failure, the last one too
FetchRejectsThenWaits(err) ==
    /\ fetching.at = "fetch"
    /\ fetching' = [fetching EXCEPT !.at = "wait", !.lastError = err,
                        !.log = @ \o <<Event("fail", fetching.attempt, err),
                                       Event("wait", fetching.attempt,
                                             Retry.BASE_DELAY_MS * 2 ^ fetching.attempt)>>]
    /\ UNCHANGED <<scheduler, router, responses, classifying, labelling>>

\* the fetch of the attempt rejects, of itself or because the timer has
\* aborted it after FETCH_TIMEOUT_MS: the error is kept; before the last
\* attempt the delay timer is set (lines 248-254); after the last attempt the
\* finally block runs, the loop ends and lastError is thrown (lines 255-259)
FetchRejects(err) ==
    /\ fetching.at = "fetch"
    /\ fetching' =
          IF fetching.attempt < Retry.ATTEMPTS - 1
          THEN [fetching EXCEPT !.at = "wait", !.lastError = err,
                   !.log = @ \o <<Event("fail", fetching.attempt, err),
                                  Event("wait", fetching.attempt,
                                        Retry.BASE_DELAY_MS * 2 ^ fetching.attempt)>>]
          ELSE [fetching EXCEPT !.at = "threw", !.timer = FALSE, !.lastError = err,
                   !.log = @ \o <<Event("fail", fetching.attempt, err),
                                  Event("throw", fetching.attempt, err)>>]
    /\ UNCHANGED <<scheduler, router, responses, classifying, labelling>>

\* the delay is over: the finally block clears the timer of the attempt, the
\* loop goes on with attempt + 1 and, while that is below RETRY_ATTEMPTS,
\* sets a timer and issues the next fetch; otherwise lastError is thrown
\* (lines 241-246, 255-259)
FetchDelayOver ==
    /\ fetching.at = "wait"
    /\ LET next == fetching.attempt + 1
           delay == Retry.BASE_DELAY_MS * 2 ^ fetching.attempt
       IN  fetching' =
              IF next < Retry.ATTEMPTS
              THEN [fetching EXCEPT !.at = "fetch", !.attempt = next, !.timer = TRUE,
                       !.elapsed = @ + delay,
                       !.log = Append(@, Event("fetch", next, fetching.url))]
              ELSE [fetching EXCEPT !.at = "threw", !.attempt = next, !.timer = FALSE,
                       !.elapsed = @ + delay,
                       !.log = Append(@, Event("throw", next, fetching.lastError))]
    /\ UNCHANGED <<scheduler, router, responses, classifying, labelling>>

\* getFile or downloadFile has called fetchWithRetry
InitFetch ==
    /\ NoScheduler
    /\ NoRouter
    /\ classifying = <<>>
    /\ labelling = <<>>
    /\ fetching \in {FetchCalled(url) : url \in Fetch.urls}

NextFetch ==
    \/ \E response \in Fetch.responses : FetchResolves(response)
    \/ \E err \in Fetch.errors : FetchRejects(err)
    \/ FetchDelayOver

SpecFetch == InitFetch /\ [][NextFetch]_vars

\* a fetch settles, at the latest when its timer aborts it, and a delay
\* timer fires
LiveFetch ==
    /\ SpecFetch
    /\ WF_vars(\/ \E response \in Fetch.responses : FetchResolves(response)
               \/ \E err \in Fetch.errors : FetchRejects(err))
    /\ WF_vars(FetchDelayOver)

----------------------------------------------------------------------------
(* Properties of the note router *)

\* the action and the run id a callback's data names
ActionOf(data) == part(split(data), 2)

RunIdIn(data) ==
    IF ActionOf(data) = Word.select THEN part(split(data), 4) ELSE part(split(data), 3)

\* the executions that are in route-note
Routing(r) == {t \in tasks : t.kind = "cb" /\ t.run = r /\ t.at \in {"move", "update", "notify"}}

\* C21: the states of a run are passed in the order classifying, awaiting
\* confirmation, routing, done.  A run is suspended only once its prompt has
\* been sent, and resumed only once it has been suspended; an execution is in
\* route-note only for a run that was prompted for, suspended and resumed and
\* is no longer suspended, and it belongs to the handler of a confirm or
\* select callback that names the run; a note is moved only by such an
\* execution; and a run succeeds only once its note has been moved.
ConfirmationOrder ==
    /\ [](\A r \in 1..Len(runs) :
            /\ runs[r].suspended => runs[r].prompted
            /\ runs[r].status = "suspended" => runs[r].suspended
            /\ runs[r].resumed > 0 => runs[r].suspended
            /\ runs[r].passed > 0 => runs[r].resumed > 0
            /\ runs[r].status = "success" => runs[r].moved > 0
            /\ \A t \in Routing(r) :
                  /\ runs[r].prompted /\ runs[r].suspended /\ runs[r].resumed > 0
                  /\ runs[r].status # "suspended"
                  /\ ActionOf(t.data) \in {Word.confirm, Word.select}
                  /\ RunIdIn(t.data) = RunIdOf(r))
    /\ [][\A n \in NoteNames :
            notes'[n].dir # notes[n].dir =>
                \E r \in 1..Len(runs) :
                    /\ runs[r].note = n
                    /\ runs'[r].moved = runs[r].moved + 1
                    /\ \E t \in Routing(r) : t.at = "move" /\ t \notin tasks']_vars

\* a run has gone through all four states
ConfirmationOrderWitness ==
    \E r \in 1..Len(runs) :
        /\ runs[r].status = "success"
        /\ runs[r].prompted /\ runs[r].suspended /\ runs[r].resumed = 1
        /\ notes[runs[r].note].dir # TelegramDir

\* the folder id a select callback's data carries, <<>> for the other actions
SelectedIn(data) == IF ActionOf(data) = Word.select THEN part(split(data), 3) ELSE <<>>

\* C22: resume override.  When await-confirmation returns on a resume
\* (the execution moves on to route-note), the classification it passes on
\* is, for a select callback whose folder id differs from the suggested one,
\* the suggestion with that id and with the name and path of the entry of
\* that id in the taxonomy as it is read at the resume; for a confirm
\* callback, or a select of the suggested folder, it is the classification
\* the run was suspended with.
ResumeOverride ==
    [][\A t \in tasks : \A u \in tasks' :
          /\ t.kind = "cb" /\ u.kind = "cb" /\ u.id = t.id
          /\ t.at \in {"confirm", "pick"} /\ u.at = "move"
          => LET orig == runs[t.run].cls
                 selectedFolderId == SelectedIn(t.data)
             IN  IF selectedFolderId # <<>> /\ selectedFolderId # orig.suggestedFolderId
                 THEN /\ u.cls.suggestedFolderId = selectedFolderId
                      /\ \E k \in 1..Len(loadFolders) :
                            /\ loadFolders[k].id = selectedFolderId
                            /\ u.cls.suggestedFolderName = loadFolders[k].name
                            /\ u.cls.suggestedFolderPath = loadFolders[k].vaultPath
                      /\ u.cls.filePath = orig.filePath /\ u.cls.chatId = orig.chatId
                 ELSE u.cls = orig]_vars

\* the resolution of the classifier's targetFolder taken on its own, on any
\* document: lines 36-38 and 52-56 of classify-note
ClassifyResolve(targetFolder) ==
    /\ Len(parsed) < MaxParses
    /\ parsed' = Append(parsed,
         [targetFolder |-> targetFolder,
          folder |-> resolveTarget(parseVaultIndex(vaultIndex), targetFolder)])
    /\ UNCHANGED <<vaultIndex, notes, runs, tasks, sent, presses, scans, edits>>
    /\ UNCHANGED <<scheduler, responses, integrations>>

NextResolve == \E targetFolder \in TargetFolders : ClassifyResolve(targetFolder)

SpecResolve == InitVault /\ [][NextResolve]_vars

\* the entries of the taxonomy that a target matches by id or by vaultPath
Matches(folders, target) ==
    {k \in 1..Len(folders) : folders[k].id = target \/ folders[k].vaultPath = target}

\* C23 as claimed: a target that matches no entry by id or vaultPath, or no
\* target, gives the entry of the taxonomy whose id is "inbox"; a target that
\* matches gives an entry it matches.
ConfirmationFallback ==
    \A i \in 1..Len(parsed) :
        LET folders == parseVaultIndex(vaultIndex)
            target == parsed[i].targetFolder
        IN  IF target = <<>> \/ Matches(folders, target) = {}
            THEN \E k \in 1..Len(folders) :
                    folders[k].id = InboxId /\ parsed[i].folder = folders[k]
            ELSE \E k \in Matches(folders, target) : parsed[i].folder = folders[k]

\* C23, amended: no target is resolved as the target "inbox"; a target that
\* matches no entry by id or vaultPath gives the first entry whose id is
\* "inbox" or, in a taxonomy without one, the built-in entry { inbox, Inbox,
\* inbox }; a target that matches gives the first entry it matches.
ConfirmationFallbackBuiltIn ==
    \A i \in 1..Len(parsed) :
        LET folders == parseVaultIndex(vaultIndex)
            target == IF parsed[i].targetFolder = <<>> THEN InboxId
                      ELSE parsed[i].targetFolder
            inboxes == {k \in 1..Len(folders) : folders[k].id = InboxId}
        IN  IF Matches(folders, target) # {}
            THEN parsed[i].folder = folders[Min(Matches(folders, target))]
            ELSE IF inboxes # {}
            THEN parsed[i].folder = folders[Min(inboxes)]
            ELSE parsed[i].folder = BuiltInInbox

\* a word that is no folder has been resolved to the Inbox entry of a
\* taxonomy with other entries, and a vaultPath to the entry of another id
ConfirmationFallbackWitness ==
    /\ Len(parsed) = 2
    /\ Len(parseVaultIndex(vaultIndex)) = 2
    /\ parsed[1].targetFolder = <<"p", "r", "o", "d", "u", "c", "e">>
    /\ parsed[1].folder \in {parseVaultIndex(vaultIndex)[k] : k \in 1..2}
    /\ parsed[1].folder.id = InboxId
    /\ parsed[2].targetFolder = <<"t", "o", "d", "o">>
    /\ parsed[2].folder.id = <<"t", "o", "-", "d", "o">>

Changing == {t \in tasks : t.kind = "cb" /\ ActionOf(t.data) = Word.change}

\* the select option of the folder menu for an entry of the taxonomy
SelectOption(f, runId) ==
    [text |-> f.name,
     callback_data |-> Word.route \o <<Colon>> \o Word.select \o <<Colon>> \o f.id
                       \o <<Colon>> \o runId]

\* C25: folder-change loop.  The handler of a 'change' callback never enters
\* the resume of a run; the step in which it ends changes no run and no note
\* and sends at most one message, the folder menu, to the chat of the
\* callback, with one select option per entry of the taxonomy as the document
\* then reads, in order, carrying the entry's id and the run id of the
\* callback; and a suspended run leaves the suspended state only in a step of
\* the handler of a confirm or select callback that names it.
FolderChangeLoop ==
    /\ [](\A t \in Changing : t.at = "menu")
    /\ [][/\ \A t \in Changing : t \notin tasks' =>
                /\ runs' = runs /\ notes' = notes
                /\ tasks' = tasks \ {t}
                /\ \A m \in sent' \ sent :
                      LET folders == parseVaultIndex(vaultIndex)
                      IN  /\ m.kind = "menu" /\ m.chat = t.chat
                          /\ Len(m.keyboard) = Len(folders)
                          /\ \A k \in 1..Len(folders) :
                                m.keyboard[k] = SelectOption(folders[k], RunIdIn(t.data))
          /\ \A r \in 1..Len(runs) :
                runs[r].status = "suspended" /\ runs'[r].status # "suspended" =>
                    \E t \in tasks :
                        /\ t.kind = "cb" /\ t \notin tasks'
                        /\ ActionOf(t.data) \in {Word.confirm, Word.select}
                        /\ RunIdIn(t.data) = RunIdOf(r)]_vars

\* a 'change' callback has been handled: the menu for the run is out with
\* the three folders of the shipped taxonomy, no handler is at work and the
\* run is still suspended
FolderChangeLoopWitness ==
    /\ tasks = {}
    /\ \E r \in 1..Len(runs), m \in sent :
          /\ runs[r].status = "suspended"
          /\ m.kind = "menu" /\ Len(m.keyboard) = 3
          /\ RunIdIn(m.keyboard[2].callback_data) = RunIdOf(r)
          /\ SelectedIn(m.keyboard[2].callback_data) = <<"t", "o", "-", "d", "o">>

\* the runs whose classify step threw on the classifier's reply
ReplyFailures == {r \in 1..Len(runs) : runs[r].error = "reply"}

\* C26: classification errors are not retried.  A run whose classify step
\* threw on the classifier's reply (no {...} block, or a block that does not
\* parse) has ended as failed, no confirmation prompt of it has been sent or
\* is in the sent messages, it has moved no note, and no scan pass begun
\* after the failure is about to start, or has started, a run for its note.
NoClassificationRetry ==
    \A r \in ReplyFailures :
        /\ runs[r].status = "failed"
        /\ ~runs[r].prompted /\ ~runs[r].suspended
        /\ runs[r].moved = 0 /\ runs[r].passed = 0
        /\ \A m \in sent : \A b \in 1..Len(m.keyboard) :
              RunIdIn(m.keyboard[b].callback_data) # RunIdOf(r)
        /\ \A t \in tasks : t.run # r
        /\ \A t \in tasks :
              t.kind = "scan" /\ t.id > runs[r].failedAt =>
                  ~(t.at = "launch" /\ t.file = runs[r].note)
        /\ \A q \in 1..Len(runs) :
              q # r /\ runs[q].note = runs[r].note => runs[q].scan <= runs[r].failedAt

\* a run has failed on the classifier's reply, a later scan pass has begun
\* and has ended, and the run is still the only one of its note, which is in
\* the telegram folder with the status 'processing'
NoClassificationRetryWitness ==
    /\ tasks = {}
    /\ \E r \in ReplyFailures :
          /\ scans > runs[r].failedAt
          /\ Len(runs) = 1
          /\ notes[runs[r].note].dir = TelegramDir
          /\ notes[runs[r].note].status = "processing"

\* the executions of route-note that are at the notification
Notifying == {t \in tasks : t.kind = "cb" /\ t.at = "notify"}

\* C27: routing success is independent of notification success.  An
\* execution of route-note comes to the notification only with its note moved
\* to the '+' subpath of the target folder and marked 'processed' with the
\* target's name; and the step in which the notification is attempted,
\* whether or not the message goes out, leaves the note there and ends the
\* run as a success whose output has success = true, the new path and the
\* target's name.
RoutingIndependent ==
    /\ [](\A t \in Notifying :
            LET n == t.cls.filePath
            IN  /\ runs[t.run].moved >= 1
                /\ notes[n].dir = InboxOf(t.cls.suggestedFolderPath)
                /\ notes[n].status = "processed"
                /\ notes[n].routedTo = t.cls.suggestedFolderName)
    /\ [](\A m \in sent : m.kind = "routed" =>
            \E r \in 1..Len(runs) :
                /\ runs[r].moved >= 1
                /\ notes[runs[r].note].status = "processed"
                /\ notes[runs[r].note].routedTo = m.name)
    /\ [][\A t \in Notifying : t \notin tasks' =>
            LET n == t.cls.filePath
            IN  /\ runs'[t.run].status = "success"
                /\ runs'[t.run].result.success
                /\ runs'[t.run].result.filePath =
                      [dir |-> InboxOf(t.cls.suggestedFolderPath), name |-> n]
                /\ runs'[t.run].result.routedTo = t.cls.suggestedFolderName
                /\ notes'[n].dir = InboxOf(t.cls.suggestedFolderPath)
                /\ notes'[n].status = "processed"]_vars

\* a run has ended as a success with its note moved and processed although
\* no 'Routed to' message went out
RoutingIndependentWitness ==
    /\ \A m \in sent : m.kind # "routed"
    /\ \E r \in 1..Len(runs) :
          /\ runs[r].status = "success" /\ runs[r].result.success
          /\ notes[runs[r].note].dir = runs[r].result.filePath.dir
          /\ notes[runs[r].note].dir # TelegramDir
          /\ notes[runs[r].note].status = "processed"

\* the ids of the entries of a list of folders
Ids(folders) == {folders[k].id : k \in 1..Len(folders)}

\* C28: the taxonomy document is the single source of truth.  The step of a
\* classification that loads the taxonomy, the step of a 'change' handler
\* that sends the menu and the step of a resume that selects another folder
\* than the suggested one each work with the entries of the document as it
\* reads at that step, whatever it read at any request before.
SingleSourceOfTruth ==
    [][LET current == parseVaultIndex(vaultIndex)
       IN  /\ \A t \in tasks, u \in tasks' :
                 /\ t.kind = "run" /\ u.kind = "run" /\ u.run = t.run
                 /\ t.at = "mark" /\ u.at = "generate"
                 => u.folders = current
           /\ \A m \in sent' \ sent :
                 m.kind = "menu" =>
                     /\ Len(m.keyboard) = Len(current)
                     /\ \A k \in 1..Len(current) :
                           /\ m.keyboard[k].text = current[k].name
                           /\ SelectedIn(m.keyboard[k].callback_data) = current[k].id
           /\ \A t \in tasks, u \in tasks' :
                 /\ t.kind = "cb" /\ u.kind = "cb" /\ u.id = t.id
                 /\ t.at = "pick" /\ u.at = "move"
                 => IF t.selectedFolderId \in Ids(current)
                    THEN \E k \in 1..Len(current) :
                            /\ current[k].id = t.selectedFolderId
                            /\ u.cls.suggestedFolderId = current[k].id
                            /\ u.cls.suggestedFolderName = current[k].name
                            /\ u.cls.suggestedFolderPath = current[k].vaultPath
                    ELSE u.cls = t.cls]_vars

\* a run was suspended with the suggestion To-Do, the To-Do section was then
\* taken out of the document, and the folder menu sent for the run on a
\* 'change' callback has no To-Do option
SingleSourceOfTruthWitness ==
    /\ edits = 1
    /\ \E r \in 1..Len(runs), m \in sent :
          /\ runs[r].suspended
          /\ runs[r].cls.suggestedFolderId = <<"t", "o", "-", "d", "o">>
          /\ m.kind = "menu" /\ Len(m.keyboard) = 2
          /\ \A k \in 1..2 :
                /\ RunIdIn(m.keyboard[k].callback_data) = RunIdOf(r)
                /\ SelectedIn(m.keyboard[k].callback_data) # <<"t", "o", "-", "d", "o">>

\* the maximal runs of letters and digits of a text, in order
RECURSIVE Words(_)
Words(s) ==
    LET alnums == {i \in 1..Len(s) : IsAlnum(s[i])}
    IN  IF alnums = {} THEN <<>>
        ELSE LET from == Min(alnums)
                 others == {j \in from..Len(s) : ~IsAlnum(s[j])}
                 to == IF others = {} THEN Len(s) ELSE Min(others) - 1
             IN  <<SubSeq(s, from, to)>> \o Words(SubSeq(s, to + 1, Len(s)))

\* words joined by single hyphens
RECURSIVE Hyphenated(_)
Hyphenated(words) ==
    IF words = <<>> THEN <<>>
    ELSE IF Len(words) = 1 THEN words[1]
    ELSE words[1] \o <<"-">> \o Hyphenated(Tail(words))

\* the lines of a document that are level-2 headings
Headings(doc) == {i \in 1..Len(doc) : startsWith(doc[i], HeadingMark)}

\* the k-th smallest member of a set of numbers
RECURSIVE Nth(_, _)
Nth(S, k) == IF k = 1 THEN Min(S) ELSE Nth(S \ {Min(S)}, k - 1)

\* the text of a heading line, without the "## ", the "(default)" marker and
\* the white space around
HeadingText(line) == trim(removeDefault(Drop(line, Len(HeadingMark))))

\* what a list of entries has to be for a document: one entry per level-2
\* heading, in order, with the id and vaultPath of C29
Describes(entries, doc) ==
    /\ Len(entries) = Cardinality(Headings(doc))
    /\ \A k \in 1..Len(entries) :
          LET h == Nth(Headings(doc), k)
              later == {j \in Headings(doc) : j > h}
              end == IF later = {} THEN Len(doc) ELSE Min(later) - 1
              text == toLowerCase(HeadingText(doc[h]))
              words == Words(text)
              paths == {j \in (h + 1)..end : indexOf(doc[j], PathKey) > 0}
              id == entries[k].id
          IN  /\ id = (IF words # <<>> /\ ~IsAlnum(text[1]) THEN <<"-">> ELSE <<>>)
                        \o Hyphenated(words)
              /\ \A i \in 1..Len(id) : IsAlnum(id[i]) \/ id[i] = "-"
              /\ id # <<>> => id[Len(id)] # "-"
              /\ \A i \in 1..(Len(id) - 1) : ~(id[i] = "-" /\ id[i + 1] = "-")
              /\ HeadingText(doc[h]) = <<"T", "o", "-", "D", "o">>
                    => id = <<"t", "o", "-", "d", "o">>
              /\ HeadingText(doc[h]) = <<"G", "r", "o", "c", "e", "r", "y">>
                    => id = <<"g", "r", "o", "c", "e", "r", "y">>
              /\ entries[k].vaultPath =
                    IF paths = {} THEN id
                    ELSE LET line == doc[Min(paths)]
                         IN  trim(Drop(line, indexOf(line, PathKey) + Len(PathKey) - 1))

Verifies(e) ==
    /\ e.token # <<>>
    /\ e.token = signed(e.route, e.secret, e.timestamp, e.body)
    /\ e.route = "slack" =>
          /\ e.timestamp # <<>>
          /\ parseInt(e.timestamp) # <<>> =>
                /\ parseInt(e.timestamp)[1] >= NowSec - ReplayWindow
                /\ parseInt(e.timestamp)[1] <= NowSec + ReplayWindow

\* C30: rejected webhooks have no effect.  A request to the Telegram, GitHub
\* or Slack route of a deployment with its secret configured, whose signature
\* or secret token is missing or does not verify, is answered with 401, no
\* event handler has run for it and no call to create, start or resume a run
\* was made.
RejectedNoEffect ==
    \A i \in 1..Len(responses) :
        LET e == responses[i]
        IN  e.secret # <<>> /\ ~Verifies(e) =>
                e.status = 401 /\ e.ran = "none" /\ e.calls = {}

\* a Telegram request with the first characters of the secret as its token
\* and a Slack request signed with the secret a second beyond the replay
\* window have both been answered with 401
RejectedNoEffectWitness ==
    /\ Len(responses) = 2
    /\ responses[1].route = "telegram" /\ responses[1].secret = Key.secret
    /\ responses[1].token = Key.prefix /\ responses[1].body = Body.confirm
    /\ responses[1].status = 401
    /\ responses[2].route = "slack" /\ responses[2].secret = Key.secret
    /\ responses[2].timestamp = <<"5", "9", "9">>
    /\ responses[2].token = signed("slack", Key.secret, <<"5", "9", "9">>, Body.mention)
    /\ responses[2].body = Body.mention
    /\ responses[2].status = 401

\* processing the event of a request throws: its body is no JSON, or it is
\* an event for which the handler calls the engine or Telegram and that
\* call fails
Throws(e) ==
    \/ e.body = Body.broken
    \/ /\ ~e.ok
       /\ e.body \in {Body.text, Body.confirm, Body.select, Body.change}

\* C31: an unconfigured webhook secret yields 500.  A request to a route whose
\* secret is not set is answered with 500, whatever header it carries, and no
\* event handler has run and no engine call was made for it; 401 is the
\* answer only of a route whose secret is set and whose header does not
\* verify; a verified request whose processing throws is answered with 500,
\* and every request has an answer.
UnconfiguredIs500 ==
    \A i \in 1..Len(responses) :
        LET e == responses[i]
        IN  /\ e.secret = <<>> =>
                e.status = 500 /\ e.ran = "none" /\ e.calls = {}
            /\ e.status = 401 => e.secret # <<>> /\ ~Verifies(e)
            /\ e.secret # <<>> /\ Verifies(e) /\ Throws(e) => e.status = 500
            /\ e.status \in {200, 401, 500}

\* a Telegram request carrying the secret as its token was answered with 500
\* by a deployment that has no secret, and a verified confirm callback whose
\* engine call failed was answered with 500
UnconfiguredIs500Witness ==
    /\ Len(responses) = 2
    /\ responses[1].route = "telegram" /\ responses[1].secret = <<>>
    /\ responses[1].token = Key.secret /\ responses[1].status = 500
    /\ responses[2].route = "telegram" /\ responses[2].secret = Key.secret
    /\ responses[2].token = Key.secret /\ responses[2].body = Body.confirm
    /\ ~responses[2].ok /\ responses[2].status = 500

\* the entries of kind ev in the history of the call
EventsOf(ev) == SelectSeq(fetching.log, LAMBDA e : e.ev = ev)

CompletionOrdering ==
    [][\A id \in running \ running' :
          \E e \in execs \ execs' :
             /\ e.job_id = id
             /\ e.phase = "done"
             /\ e.wrote => RowOf(store, id).last_run_at = e.now]_vars

\* an execution started in this lifetime has written its stamp and is about
\* to take its id out of the running set
CompletionOrderingWitness ==
    \E e \in execs :
       /\ e.phase = "done" /\ e.wrote /\ ~e.failed
       /\ e.job_id \in running
       /\ e.prev # e.now
       /\ RowOf(store, e.job_id).last_run_at = e.now

\* C36: each note gets at most one router run.  No two runs of
\* noteRouterWorkflow are for the same note file, whatever the scan passes
\* and however they overlap, and no scan pass is about to start a run for a
\* note whose status is 'processing' or 'processed'.
OneRunPerNote ==
    /\ \A i, j \in 1..Len(runs) : runs[i].note = runs[j].note => i = j
    /\ \A t \in tasks :
          t.kind = "scan" /\ t.at = "launch" =>
             notes[t.file].status = "unprocessed"

\* the executions in flight that have moved note n and the runs that have
\* returned from route-note for it, each with the folder the note was routed to
RoutedBy(n) ==
    {[path |-> t.cls.suggestedFolderPath, name |-> t.cls.suggestedFolderName] :
        t \in {u \in tasks : u.kind = "cb" /\ u.at \in {"update", "notify"}
                                /\ u.cls.filePath = n}}
    \cup {[path |-> runs[r].result.filePath.dir.base, name |-> runs[r].result.routedTo] :
            r \in {k \in 1..Len(runs) : runs[k].note = n /\ runs[k].result.success}}

OccursWithin(s, from, to) == \E t \in (from + 1)..to : Occurs(s, t)

\* C38: restart semantics.  The startup pass of a process started after
\* another one ended finds the running set empty, skips no row, and launches
\* a row exactly when its stored last_run_at is null or its schedule has an
\* occurrence after last_run_at and up to now.  So a job that the process
\* before had in flight with its last_run_at not written, and whose row the
\* pass reads with the schedule it was launched under, is launched again; and
\* a row with a written last_run_at and no occurrence since is not launched.
RestartSemantics ==
    [][pc = "catchup" /\ lastPass' # NoPass /\ (\E e \in execs : e.phase = "lost") =>
          /\ running = {}
          /\ ~lastPass'.threw =>
                \A row \in lastPass'.rows :
                   \E ev \in lastPass'.evals :
                      /\ ev.job_id = row.job_id
                      /\ ~ev.skipped
                      /\ ev.called <=>
                            \/ row.last_run_at = Null
                            \/ OccursWithin(row.schedule, row.last_run_at, lastPass'.now)
          /\ \A e \in execs :
                /\ e.phase = "lost" /\ ~e.wrote
                /\ \E row \in lastPass'.rows :
                      row.job_id = e.job_id /\ row.schedule = e.schedule
                => \E ev \in lastPass'.evals : ev.job_id = e.job_id /\ ev.called
          /\ \A ev \in lastPass'.evals :
                /\ ev.last_run_at # Null
                /\ ~OccursWithin(ev.schedule, ev.last_run_at, lastPass'.now)
                => ~ev.called]_vars

\* the ids of the definitions registered in this process
Registered == {jobs[k].id : k \in 1..Len(jobs)}

\* a step keeps every row, and every enabled row enabled
KeepsRows ==
    \A r \in store :
       \E r2 \in store' :
          r2.job_id = r.job_id /\ (r.enabled = 1 => r2.enabled = 1)

\* a step keeps every row, and every enabled row enabled unless it is the
\* upsert by start() of a registered definition of that job with enabled false
KeepsRowsSaveUpsert ==
    \A r \in store :
       \E r2 \in store' :
          /\ r2.job_id = r.job_id
          /\ r.enabled = 1 =>
                \/ r2.enabled = 1
                \/ /\ pc = "upsert" /\ idx <= Len(jobs)
                   /\ jobs[idx].id = r.job_id /\ jobs[idx].enabled = "false"

\* a pass reads every enabled row of the table, registered or not; the loop
\* takes up every row read, launches no other job, and launches the row of a
\* job that is not registered exactly when it is not running and is due
PassesGoByTheTable ==
    /\ \A rows \in BagToSet(passes') :
          CopiesIn(rows, passes') > CopiesIn(rows, passes) =>
             rows = {r \in store : r.enabled = 1}
    /\ lastPass' # NoPass =>
          /\ {ev.job_id : ev \in lastPass'.evals} = {r.job_id : r \in lastPass'.rows}
          /\ {e.job_id : e \in execs' \ execs} \subseteq {r.job_id : r \in lastPass'.rows}
          /\ \A r \in lastPass'.rows :
                r.job_id \notin Registered =>
                   \E ev \in lastPass'.evals :
                      /\ ev.job_id = r.job_id
                      /\ ev.called <=>
                            /\ r.job_id \notin lastPass'.before
                            /\ \/ r.last_run_at = Null
                               \/ OccursWithin(r.schedule, r.last_run_at, lastPass'.now)
                      /\ ev.called => \E e \in execs' \ execs : e.job_id = r.job_id

\* C39 as claimed: stored jobs outlive their registration.  No step deletes
\* or disables a row; every pass reads every row with enabled = 1; a row whose
\* job is not registered in this process is launched whenever it is due; the
\* jobs a pass may launch are those of the enabled rows of the table.
StoredJobsOutlive == [][KeepsRows /\ PassesGoByTheTable]_vars

\* C39, amended: no step deletes a row, and a row is disabled only by the
\* upsert of a registered definition of its job with enabled false; every
\* pass reads every row with enabled = 1; a row whose job is not registered
\* in this process is launched whenever it is due; the jobs a pass may launch
\* are those of the enabled rows of the table.
StoredJobsOutliveUpsert == [][KeepsRowsSaveUpsert /\ PassesGoByTheTable]_vars

\* a pass has just launched a job that has a row from an earlier lifetime
\* and is not among the definitions registered in this process
StoredJobsOutliveWitness ==
    /\ lastPass # NoPass
    /\ jobs # <<>>
    /\ \E ev \in lastPass.evals :
          /\ ev.called
          /\ ev.job_id \notin Registered
          /\ \E e \in execs : e.job_id = ev.job_id

\* the x-slack-request-timestamp values handed to verifySlackSignature: now,
\* both edges of the window, one second beyond each edge, none, and one
\* that is no number
SlackTimestamps ==
    {<<"9", "0", "0">>, <<"6", "0", "0">>, <<"5", "9", "9">>,
     <<"1", "2", "0", "0">>, <<"1", "2", "0", "1">>, <<>>, <<"x">>}

\* verifySlackSignature taken on its own (lines 53-80): one call with any
\* payload, time stamp, signature (none, or made for this payload and time
\* stamp with the secret, with a guess or with the empty key) and secret
VerifySlack(payload, timestamp, signature, signingSecret) ==
    /\ Len(parsed) < MaxParses
    /\ parsed' = Append(parsed,
         [payload |-> payload, timestamp |-> timestamp, signature |-> signature,
          signingSecret |-> signingSecret,
          accepted |-> verifySlackSignature(payload, timestamp, signature,
                                            signingSecret)])
    /\ UNCHANGED <<vaultIndex, notes, runs, tasks, sent, presses, scans, edits>>
    /\ UNCHANGED <<scheduler, responses, integrations>>

NextSlack ==
    \E payload \in {Body.mention, Body.challenge}, timestamp \in SlackTimestamps,
       signingSecret \in Secrets :
       \E signature \in {<<>>} \cup {signed("slack", k, timestamp, payload) :
                                        k \in {Key.secret, Key.guess, <<>>}} :
          VerifySlack(payload, timestamp, signature, signingSecret)

SpecSlack == InitWebhook /\ [][NextSlack]_vars

\* C40: the Slack freshness window.  A call of verifySlackSignature whose
\* time stamp is more than 300 seconds before or after the current time is
\* rejected, also when its signature is the one the secret gives for that
\* time stamp; a call whose time stamp is 300 seconds or less from the
\* current time, with a secret and the signature the secret gives, is
\* accepted; a call with no signature, no time stamp or no secret is rejected.
SlackFreshness ==
    \A i \in 1..Len(parsed) :
        LET c == parsed[i]
            time == parseInt(c.timestamp)
            valid == c.signature = V0Prefix \o hmac(c.signingSecret,
                                        sigBasestring(c.timestamp, c.payload))
        IN  /\ time # <<>> /\ time[1] < NowSec - 300 => ~c.accepted
            /\ time # <<>> /\ time[1] > NowSec + 300 => ~c.accepted
            /\ (/\ c.signingSecret # <<>>
                /\ time # <<>> /\ time[1] >= NowSec - 300 /\ time[1] <= NowSec + 300
                /\ valid) => c.accepted
            /\ c.signature = <<>> \/ c.timestamp = <<>> \/ c.signingSecret = <<>>
                  => ~c.accepted

\* a call stamped 301 seconds ahead with the signature of the secret was
\* rejected, and one stamped 300 seconds back with it was accepted
SlackFreshnessWitness ==
    /\ Len(parsed) = 2
    /\ parsed[1].timestamp = <<"1", "2", "0", "1">>
    /\ parsed[1].signingSecret = Key.secret
    /\ parsed[1].signature = signed("slack", Key.secret, parsed[1].timestamp,
                                    parsed[1].payload)
    /\ ~parsed[1].accepted
    /\ parsed[2].timestamp = <<"6", "0", "0">>
    /\ parsed[2].signingSecret = Key.secret
    /\ parsed[2].signature = signed("slack", Key.secret, parsed[2].timestamp,
                                    parsed[2].payload)
    /\ parsed[2].accepted

----------------------------------------------------------------------------
(* classify-emails step of the Gmail batch classification workflow          *)
(* (src/src/mastra/workflows/gmail-batch-classification-workflow.ts)        *)

\* most emails handed to the step; the emails are 1..n, an email being its id
MaxEmails == 4

\* const concurrency = 3 (line 239)
concurrency == 3

\* what agent.generate may do for one email (line 194): reject, or answer
\* with a text that holds no braces, braces that are no JSON, or a JSON
\* object whose priority is the one given; z.enum(['high','medium','low'])
\* of classificationOutputSchema turns "urgent" down (email-schemas.ts 32)
AgentReplies ==
    {[kind |-> k, priority |-> "none"] : k \in {"throws", "prose", "badjson"}}
       \cup {[kind |-> "json", priority |-> p] :
                p \in {"high", "medium", "low", "urgent"}}

\* classifyEmail (lines 159-213): the whole body is inside try/catch, every
\* path returns; classification is <<>> for null and <<c>> for c, whose
\* emailId is the email's own (line 206)
classifyEmail(email, reply) ==
    IF reply.kind = "throws"
    THEN [classification |-> <<>>, error |-> "agent", emailId |-> email]
    ELSE IF reply.kind = "prose"
    THEN [classification |-> <<>>, error |-> "Failed to parse classification response",
          emailId |-> email]
    ELSE IF reply.kind = "badjson"
    THEN [classification |-> <<>>, error |-> "SyntaxError", emailId |-> email]
    ELSE IF reply.priority \notin {"high", "medium", "low"}
    THEN [classification |-> <<>>, error |-> "ZodError", emailId |-> email]
    ELSE [classification |-> <<[emailId |-> email, priority |-> reply.priority]>>,
          error |-> "null", emailId |-> email]

\* a batch that takes every email from i on
batchOfRest(n, i) == (i + 1)..n

\* emails.slice(i, i + concurrency) (line 244), as positions in 1..n
batchOf(n, i) == {k \in (i + 1)..n : k <= i + concurrency}

\* the aggregation and the result (lines 251-285)
Aggregate(n, results) ==
    LET classified == SelectSeq(results, LAMBDA r : r.classification # <<>>)
        classifications == [k \in 1..Len(classified) |-> classified[k].classification[1]]
        failed == SelectSeq(results, LAMBDA r : r.classification = <<>>)
        failedEmailIds == [k \in 1..Len(failed) |-> failed[k].emailId]
        count(p) == Cardinality({k \in 1..Len(classifications) :
                                    classifications[k].priority = p})
    IN  [totalFetched |-> n,
         totalClassified |-> Len(classifications),
         totalFailed |-> Len(failedEmailIds),
         classifications |-> classifications,
         failedEmailIds |-> failedEmailIds,
         byPriority |-> [high |-> count("high"), medium |-> count("medium"),
                         low |-> count("low")]]

\* the loop at position i (lines 243-249, 251-285): while i is below the
\* number of emails the batch is cut and classifyEmail called for each of its
\* emails, every call running up to its agent.generate; otherwise the
\* results are aggregated and returned
Loop(c, i, results) ==
    IF i < c.emails
    THEN [c EXCEPT !.at = "await", !.i = i, !.results = results,
                   !.batch = batchOf(c.emails, i),
                   !.inflight = batchOf(c.emails, i),
                   !.calls = [k \in 1..c.emails |->
                                 IF k \in batchOf(c.emails, i) THEN @[k] + 1 ELSE @[k]]]
    ELSE [c EXCEPT !.at = "returned", !.i = i, !.results = results,
                   !.output = <<Aggregate(c.emails, results)>>]

\* execute has been called with n emails and has run to its first await, or
\* to its end when there is no email (lines 228-249)
ClassifyCalled(n) ==
    Loop([emails |-> n, at |-> "called", i |-> 0, batch |-> {}, inflight |-> {},
          settled |-> [k \in 1..n |-> <<>>], results |-> <<>>,
          calls |-> [k \in 1..n |-> 0], output |-> <<>>], 0, <<>>)

\* agent.generate settles for the email at position k and classifyEmail
\* returns (lines 194-212)
AgentSettles(k, reply) ==
    /\ classifying.at = "await"
    /\ k \in classifying.inflight
    /\ classifying' = [classifying EXCEPT !.inflight = @ \ {k},
                                          !.settled[k] = <<classifyEmail(k, reply)>>]
    /\ UNCHANGED <<scheduler, router, responses, fetching, labelling>>

\* every call of the batch has returned: Promise.all resolves with the
\* results in the order of the batch, they are pushed, i moves on by
\* concurrency and the loop goes on (lines 245-249)
BatchResolved ==
    /\ classifying.at = "await"
    /\ classifying.inflight = {}
    /\ LET i == classifying.i
           batchResults == [k \in 1..Cardinality(classifying.batch) |->
                               classifying.settled[i + k][1]]
       IN  classifying' = Loop(classifying, i + concurrency,
                               classifying.results \o batchResults)
    /\ UNCHANGED <<scheduler, router, responses, fetching, labelling>>

InitClassify ==
    /\ NoScheduler
    /\ NoRouter
    /\ fetching = <<>>
    /\ labelling = <<>>
    /\ classifying \in {ClassifyCalled(n) : n \in 0..MaxEmails}

NextClassify ==
    \/ \E k \in 1..MaxEmails, reply \in AgentReplies : AgentSettles(k, reply)
    \/ BatchResolved

SpecClassify == InitClassify /\ [][NextClassify]_vars

\* C34: batch classification with concurrency control.  The classify-emails
\* step calls classifyEmail exactly once for every email and never has more
\* than 3 calls in flight; an email whose classification fails does not fail
\* the step, which returns; in its result totalClassified + totalFailed is
\* the number of emails, failedEmailIds holds exactly the emails without a
\* classification, and the counts of byPriority sum to totalClassified.
BatchClassification ==
    /\ Cardinality(classifying.inflight) <= 3
    /\ \A k \in 1..classifying.emails : classifying.calls[k] <= 1
    /\ classifying.at \in {"await", "returned"}
    /\ classifying.at = "returned" =>
          LET out == classifying.output[1]
              classifiedIds == {out.classifications[k].emailId :
                                   k \in 1..Len(out.classifications)}
              failedIds == {out.failedEmailIds[k] : k \in 1..Len(out.failedEmailIds)}
          IN  /\ \A k \in 1..classifying.emails : classifying.calls[k] = 1
              /\ Len(classifying.results) = classifying.emails
              /\ \A k \in 1..classifying.emails : classifying.results[k].emailId = k
              /\ out.totalClassified + out.totalFailed = classifying.emails
              /\ out.totalFetched = classifying.emails
              /\ Cardinality(failedIds) = Len(out.failedEmailIds)
              /\ failedIds = {k \in 1..classifying.emails :
                                 classifying.settled[k][1].classification = <<>>}
              /\ classifiedIds = (1..classifying.emails) \ failedIds
              /\ Cardinality(classifiedIds) = out.totalClassified
              /\ out.byPriority.high + out.byPriority.medium + out.byPriority.low
                    = out.totalClassified

\* four emails went through in two batches; the agent threw for the second,
\* answered the third with a priority outside the schema, and the fourth
\* was classified low
BatchClassificationWitness ==
    /\ classifying.at = "returned"
    /\ classifying.emails = 4
    /\ classifying.output[1].failedEmailIds = <<2, 3>>
    /\ classifying.results[2].error = "agent"
    /\ classifying.results[3].error = "ZodError"
    /\ classifying.output[1].byPriority = [high |-> 1, medium |-> 0, low |-> 1]
    /\ classifying.output[1].classifications[2] = [emailId |-> 4, priority |-> "low"]

----------------------------------------------------------------------------
(* apply-gmail-labels step of the Gmail batch classification workflow       *)
(* (src/src/mastra/workflows/gmail-batch-classification-workflow.ts)        *)

\* most classifications handed to the step; the email of a classification
\* is its position
MaxClassifications == 4

\* the primaryLabel values of the classifications, what toLowerCase makes of
\* them (lines 307, 315, 322, 335, 338) and the id Gmail gives the label of
\* a name; Gmail holds one label per name whatever its case
Gmail ==
    [names |-> {"work", "Work"},
     lower |-> [work |-> "work", Work |-> "work"],
     id |-> [work |-> "Label_1"]]

\* the cache a list of labels gives: lower-cased name -> id, "" for a name
\* without entry (lines 304-309, 333-337)
CacheOf(mailbox) ==
    [key \in DOMAIN Gmail.id |->
        IF \E name \in mailbox : Gmail.lower[name] = key THEN Gmail.id[key] ELSE ""]

\* a classification's task inside Promise.all (lines 352-362); reply is the
\* answer to its createLabel, refetch and add the outcome of its second
\* getLabels and of its addLabels
Task(at, labelId) ==
    [at |-> at, reply |-> "none", refetch |-> "none", add |-> "none",
     labelId |-> labelId, success |-> FALSE]

\* the loop at position i (lines 349-365, 367-380): while i is below the
\* number of classifications the batch is cut and every task of it runs up
\* to its first request, addLabels when the label is in the cache (line 316)
\* and createLabel otherwise (line 320); otherwise the step returns
LoopLabels(l, i, results) ==
    IF i < Len(l.classifications)
    THEN LET batch == {k \in (i + 1)..Len(l.classifications) : k <= i + concurrency}
         IN  [l EXCEPT !.at = "await", !.i = i, !.results = results, !.batch = batch,
                 !.tasks = [k \in DOMAIN @ |->
                    IF k \notin batch THEN @[k]
                    ELSE LET cached == l.cache[Gmail.lower[l.classifications[k]]]
                         IN  IF cached # "" THEN Task("add", cached)
                             ELSE Task("create", "")]]
    ELSE [l EXCEPT !.at = "returned", !.i = i, !.results = results,
             !.output = <<[totalEmails |-> Len(l.classifications),
                           totalLabeled |-> Cardinality({k \in 1..Len(results) :
                                                            results[k].success}),
                           totalFailed |-> Cardinality({k \in 1..Len(results) :
                                                           ~results[k].success}),
                           labelsCreated |-> l.labelsCreated]>>]

\* execute has been called and awaits its first getLabels (lines 295-303);
\* mailbox is the set of label names Gmail holds
ApplyCalled(classifications, mailbox) ==
    [classifications |-> classifications, at |-> "list", mailbox |-> mailbox,
     cache |-> CacheOf({}), i |-> 0, batch |-> {},
     tasks |-> [k \in 1..Len(classifications) |-> Task("idle", "")],
     labelsCreated |-> 0, made |-> {}, results |-> <<>>, output |-> <<>>]

\* the first getLabels settles (lines 303-311): a rejection leaves execute,
\* a list fills the cache and the loop starts
LabelsListed(ok) ==
    /\ labelling.at = "list"
    /\ labelling' =
          IF ok
          THEN LoopLabels([labelling EXCEPT !.cache = CacheOf(labelling.mailbox)],
                          0, <<>>)
          ELSE [labelling EXCEPT !.at = "threw"]
    /\ UNCHANGED <<scheduler, router, responses, fetching, classifying>>

\* Gmail handles the createLabel request of task k (line 320): a name it
\* holds already is turned down with the conflict signal; another name is
\* created and answered with its label, created and answered with a label
\* that lacks the id, or the request fails and nothing is created
GmailCreates(k, outcome) ==
    /\ labelling.at = "await"
    /\ k \in labelling.batch
    /\ labelling.tasks[k].at = "create"
    /\ LET name == labelling.classifications[k]
           held == \E n \in labelling.mailbox : Gmail.lower[n] = Gmail.lower[name]
       IN  /\ outcome = "conflict" <=> held
           /\ labelling' =
                 [labelling EXCEPT !.tasks[k].at = "created",
                                   !.tasks[k].reply = outcome,
                                   !.mailbox = IF outcome \in {"created", "noid"}
                                               THEN @ \cup {name} ELSE @,
                                   !.made = IF outcome \in {"created", "noid"}
                                            THEN @ \cup {k} ELSE @]
    /\ UNCHANGED <<scheduler, router, responses, fetching, classifying>>

\* the task's result when it has thrown (lines 358-361)
Thrown(t) == [t EXCEPT !.at = "done", !.labelId = "", !.success = FALSE]

\* a resolveLabelId that rethrows a conflict without asking again
CreateSettlesNoRequery(k) ==
    /\ labelling.at = "await"
    /\ k \in labelling.batch
    /\ labelling.tasks[k].at = "created"
    /\ LET t == labelling.tasks[k]
           key == Gmail.lower[labelling.classifications[k]]
       IN  labelling' =
              IF t.reply = "created"
              THEN [labelling EXCEPT !.cache[key] = Gmail.id[key],
                                     !.labelsCreated = @ + 1,
                                     !.tasks[k].at = "add",
                                     !.tasks[k].labelId = Gmail.id[key]]
              ELSE [labelling EXCEPT !.tasks[k] = Thrown(t)]
    /\ UNCHANGED <<scheduler, router, responses, fetching, classifying>>

\* the answer to createLabel reaches resolveLabelId (lines 320-342): a label
\* with id is cached and counted, and addLabels is called with it (line
\* 356); a label without id and any error but the conflict signal fail the
\* task; on the conflict signal getLabels is called again (line 332)
CreateSettles(k) ==
    /\ labelling.at = "await"
    /\ k \in labelling.batch
    /\ labelling.tasks[k].at = "created"
    /\ LET t == labelling.tasks[k]
           key == Gmail.lower[labelling.classifications[k]]
       IN  labelling' =
              IF t.reply = "created"
              THEN [labelling EXCEPT !.cache[key] = Gmail.id[key],
                                     !.labelsCreated = @ + 1,
                                     !.tasks[k].at = "add",
                                     !.tasks[k].labelId = Gmail.id[key]]
              ELSE IF t.reply = "conflict"
              THEN [labelling EXCEPT !.tasks[k].at = "refetch"]
              ELSE [labelling EXCEPT !.tasks[k] = Thrown(t)]
    /\ UNCHANGED <<scheduler, router, responses, fetching, classifying>>

\* the second getLabels of task k settles (lines 332-341): a rejection
\* fails the task; a list is merged into the cache and the label's id, when
\* the cache has it now, goes to addLabels; otherwise the error of
\* createLabel is thrown
RefetchSettles(k, ok) ==
    /\ labelling.at = "await"
    /\ k \in labelling.batch
    /\ labelling.tasks[k].at = "refetch"
    /\ LET t == labelling.tasks[k]
           key == Gmail.lower[labelling.classifications[k]]
           listed == CacheOf(labelling.mailbox)
           merged == [c \in DOMAIN labelling.cache |->
                         IF listed[c] # "" THEN listed[c] ELSE labelling.cache[c]]
       IN  labelling' =
              IF ~ok
              THEN [labelling EXCEPT !.tasks[k] = Thrown([t EXCEPT !.refetch = "failed"])]
              ELSE IF merged[key] # ""
              THEN [labelling EXCEPT !.cache = merged,
                                     !.tasks[k].refetch = "ok",
                                     !.tasks[k].at = "add",
                                     !.tasks[k].labelId = merged[key]]
              ELSE [labelling EXCEPT !.cache = merged,
                                     !.tasks[k] = Thrown([t EXCEPT !.refetch = "ok"])]
    /\ UNCHANGED <<scheduler, router, responses, fetching, classifying>>

\* addLabels of task k settles (lines 356-361)
AddSettles(k, ok) ==
    /\ labelling.at = "await"
    /\ k \in labelling.batch
    /\ labelling.tasks[k].at = "add"
    /\ LET t == labelling.tasks[k]
       IN  labelling' =
              IF ok
              THEN [labelling EXCEPT !.tasks[k].at = "done", !.tasks[k].add = "ok",
                                     !.tasks[k].success = TRUE]
              ELSE [labelling EXCEPT !.tasks[k] = Thrown([t EXCEPT !.add = "failed"])]
    /\ UNCHANGED <<scheduler, router, responses, fetching, classifying>>

\* every task of the batch has returned: Promise.all resolves, the results
\* are pushed in the order of the batch and the loop goes on (lines 351-365)
BatchLabelled ==
    /\ labelling.at = "await"
    /\ \A k \in labelling.batch : labelling.tasks[k].at = "done"
    /\ LET i == labelling.i
           batchResults ==
              [k \in 1..Cardinality(labelling.batch) |->
                  [emailId |-> i + k, labelName |-> labelling.classifications[i + k],
                   labelId |-> labelling.tasks[i + k].labelId,
                   success |-> labelling.tasks[i + k].success]]
       IN  labelling' = LoopLabels(labelling, i + concurrency,
                                   labelling.results \o batchResults)
    /\ UNCHANGED <<scheduler, router, responses, fetching, classifying>>

\* somebody else creates a label in the mailbox while the step runs
OtherCreates(name) ==
    /\ labelling.at \in {"list", "await"}
    /\ \A n \in labelling.mailbox : Gmail.lower[n] # Gmail.lower[name]
    /\ labelling' = [labelling EXCEPT !.mailbox = @ \cup {name}]
    /\ UNCHANGED <<scheduler, router, responses, fetching, classifying>>

\* sequences of at most n elements of S
UpTo(S, n) == UNION {[1..m -> S] : m \in 0..n}

InitLabels ==
    /\ NoScheduler
    /\ NoRouter
    /\ fetching = <<>>
    /\ classifying = <<>>
    /\ labelling \in {ApplyCalled(cs, {}) : cs \in UpTo(Gmail.names, MaxClassifications)}

NextLabels ==
    \/ \E ok \in BOOLEAN : LabelsListed(ok)
    \/ \E k \in 1..MaxClassifications,
          outcome \in {"created", "noid", "conflict", "error"} : GmailCreates(k, outcome)
    \/ \E k \in 1..MaxClassifications : CreateSettles(k)
    \/ \E k \in 1..MaxClassifications, ok \in BOOLEAN : RefetchSettles(k, ok)
    \/ \E k \in 1..MaxClassifications, ok \in BOOLEAN : AddSettles(k, ok)
    \/ BatchLabelled
    \/ \E name \in Gmail.names : OtherCreates(name)

SpecLabels == InitLabels /\ [][NextLabels]_vars

\* C33: duplicate-creation conflicts are resolved, not failed.  In
\* apply-gmail-labels a task whose createLabel was turned down with the
\* conflict signal, the label being held by Gmail by then, asks for the
\* label list again and goes on to addLabels with the id of the label Gmail
\* holds; it ends with success = true and that id unless the second
\* getLabels or addLabels itself fails; and labelsCreated is the number of
\* createLabel calls that returned a label with id, never more than the
\* labels the step has created.
ConflictsResolved ==
    /\ \A k \in DOMAIN labelling.tasks :
          LET t == labelling.tasks[k]
              key == Gmail.lower[labelling.classifications[k]]
          IN  t.reply = "conflict" =>
                 /\ \E n \in labelling.mailbox : Gmail.lower[n] = key
                 /\ t.at \in {"created", "refetch", "add", "done"}
                 /\ t.at = "add" => t.refetch = "ok" /\ t.labelId = Gmail.id[key]
                 /\ t.at = "done" =>
                       /\ t.refetch \in {"ok", "failed"}
                       /\ t.refetch = "ok" => t.add \in {"ok", "failed"}
                       /\ t.success <=> (t.refetch = "ok" /\ t.add = "ok")
                       /\ t.success => t.labelId = Gmail.id[key]
    /\ labelling.labelsCreated
          = Cardinality({k \in DOMAIN labelling.tasks :
                            /\ labelling.tasks[k].reply = "created"
                            /\ labelling.tasks[k].at \in {"add", "done"}})
    /\ labelling.labelsCreated <= Cardinality(labelling.made)
    /\ labelling.at = "returned" =>
          /\ Len(labelling.results) = Len(labelling.classifications)
          /\ \A k \in 1..Len(labelling.results) :
                /\ labelling.results[k].success = labelling.tasks[k].success
                /\ labelling.results[k].labelId = labelling.tasks[k].labelId
          /\ labelling.output[1].labelsCreated = labelling.labelsCreated

\* two classifications of one batch name the same label in different case:
\* the first creates it, the second is turned down with the conflict
\* signal, finds the label on asking again and labels its email; one label
\* is counted as created
ConflictsResolvedWitness ==
    /\ labelling.at = "returned"
    /\ labelling.classifications = <<"work", "Work">>
    /\ labelling.tasks[1].reply = "created"
    /\ labelling.tasks[2].reply = "conflict"
    /\ labelling.results[2]
          = [emailId |-> 2, labelName |-> "Work", labelId |-> "Label_1", success |-> TRUE]
    /\ labelling.results[1].success
    /\ labelling.output[1].labelsCreated = 1
    /\ labelling.mailbox = {"work"}

====
